---- MODULE Spec2Model ----
(***************************************************************************)
(* CShaderManager: the program cache, the effect cache, technique          *)
(* selection and the hotload dependency map of graphics/ShaderManager.cpp. *)
(***************************************************************************)
EXTENDS Integers, Sequences, FiniteSets, TLC

VARIABLES
    m_ProgramCache,  \* CacheKey -> program handle (NULL for a cached failure)
    m_EffectCache,   \* EffectCacheKey -> technique handle (NULL for a cached failure)
    m_HotloadFiles,  \* path -> set of (weak) program handles
    programs,        \* heap of CShaderProgram objects, handle = index
    techniques,      \* heap of CShaderTechnique objects, handle = index
    progFile,        \* VFS: program name -> program description document
    effFile,         \* VFS: effect name -> effect description document
    srcOk,           \* VFS: shader source path -> does it compile
    backend,         \* g_VideoMode.GetBackend()
    caps,            \* g_VideoMode.GetBackendDevice()->GetCapabilities()
    progLoads,       \* XeroFile.Load calls made by NewProgram
    effLoads,        \* XeroFile.Load calls made by NewEffect
    logs,            \* LOGERROR entries, in order
    warns,           \* debug_warn entries, in order
    pstats,          \* per program key: what its LoadProgram calls did
    estats,          \* per effect key: what its LoadEffect calls did
    last,            \* the latest call and what it returned
    asked,           \* the calls made so far, as the callers wrote them
    ncalls           \* number of steps taken

vars == <<m_ProgramCache, m_EffectCache, m_HotloadFiles, programs, techniques,
          progFile, effFile, srcOk, backend, caps, progLoads, effLoads, logs,
          warns, pstats, estats, last, asked, ncalls>>

(***************************************************************************)
(* Bounds of the model.                                                    *)
(***************************************************************************)
MaxCalls == 3
MaxResolves == 1
MaxTechs == 3
MaxChildren == 3
MaxStateTags == 2
MaxHotSteps == 4
MaxParams == 2

NULL == 0

(***************************************************************************)
(* Small helpers.                                                          *)
(***************************************************************************)
Range(s) == {s[i] : i \in 1..Len(s)}

EmptyMap == [x \in {} |-> ""]

Indices(s, P(_)) == {i \in 1..Len(s) : P(s[i])}

SetMax(S) == CHOOSE x \in S : \A y \in S : y <= x

SetMin(S) == CHOOSE x \in S : \A y \in S : x <= y

SeqsUpTo(S, n) == UNION {[1..k -> S] : k \in 0..n}

(***************************************************************************)
(* The XMB tree: an element has a tag, attributes and child elements; an   *)
(* absent attribute reads as the empty string.                             *)
(***************************************************************************)
El(tag, attrs, children) == [tag |-> tag, attrs |-> attrs, children |-> children]

GetNamedItem(el, at) == IF at \in DOMAIN el.attrs THEN el.attrs[at] ELSE ""

Missing == El("", EmptyMap, <<>>)

(***************************************************************************)
(* CShaderDefines: name/value items kept sorted by name; Add inserts or    *)
(* overwrites.                                                             *)
(***************************************************************************)
DefNameOrder == <<"A", "B", "C">>

NameRank(n) == CHOOSE i \in 1..Len(DefNameOrder) : DefNameOrder[i] = n

NoDefines == <<>>

Add(defs, name, value) ==
    LET lower == SelectSeq(defs, LAMBDA it : NameRank(it[1]) < NameRank(name))
        upper == SelectSeq(defs, LAMBDA it : NameRank(it[1]) > NameRank(name))
    IN lower \o <<<<name, value>>>> \o upper

RECURSIVE AddAll(_, _)
AddAll(defs, ins) ==
    IF ins = <<>> THEN defs
    ELSE AddAll(Add(defs, Head(ins)[1], Head(ins)[2]), Tail(ins))

MakeDefines(ins) == AddAll(NoDefines, ins)

DefinedNames(defs) == {defs[i][1] : i \in 1..Len(defs)}

GetValue(defs, name) ==
    IF name \in DefinedNames(defs)
    THEN (CHOOSE it \in Range(defs) : it[1] = name)[2]
    ELSE ""

GetHash(defs) == defs

\* CPreprocessorWrapper::TestConditional for a condition that names one
\* define: "#if NAME" holds when NAME is defined to something other than 0.
TestConditional(defs, cond) ==
    /\ cond \in DefinedNames(defs)
    /\ GetValue(defs, cond) \notin {"", "0"}

(***************************************************************************)
(* Manager state threaded through a call: the caches, the heaps, the       *)
(* counters and the result of the call.                                    *)
(***************************************************************************)
Put(f, k, v) == [x \in (DOMAIN f) \cup {k} |-> IF x = k THEN v ELSE f[x]]

LastIndex(s, P(_)) == SetMax(Indices(s, P))

\* The map a loop of "m[key(e)] = val(e)" over s leaves behind.
MapOf(s, key(_), val(_)) ==
    [k \in {key(s[i]) : i \in 1..Len(s)} |->
        val(s[LastIndex(s, LAMBDA e : key(e) = k)])]

RECURSIVE Concat(_)
Concat(ss) == IF ss = <<>> THEN <<>> ELSE Head(ss) \o Concat(Tail(ss))

Digits == [d \in {"0", "1", "2", "3"} |->
             CASE d = "0" -> 0 [] d = "1" -> 1 [] d = "2" -> 2 [] d = "3" -> 3]

ToInt(str) == IF str \in DOMAIN Digits THEN Digits[str] ELSE 0

(***************************************************************************)
(* Program resolution.                                                     *)
(***************************************************************************)
KnownSemantics ==
    [s \in {"gl_Vertex", "gl_Normal", "gl_Color", "gl_SecondaryColor",
            "gl_FogCoord", "gl_MultiTexCoord0", "gl_MultiTexCoord1",
            "gl_MultiTexCoord2", "gl_MultiTexCoord3", "gl_MultiTexCoord4",
            "gl_MultiTexCoord5", "gl_MultiTexCoord6", "gl_MultiTexCoord7",
            "CustomAttribute0", "CustomAttribute1", "CustomAttribute2"} |->
        CASE s = "gl_Vertex" -> 0
          [] s = "gl_Normal" -> 2
          [] s = "gl_Color" -> 3
          [] s = "gl_SecondaryColor" -> 4
          [] s = "gl_FogCoord" -> 5
          [] s = "gl_MultiTexCoord0" -> 8
          [] s = "gl_MultiTexCoord1" -> 9
          [] s = "gl_MultiTexCoord2" -> 10
          [] s = "gl_MultiTexCoord3" -> 11
          [] s = "gl_MultiTexCoord4" -> 12
          [] s = "gl_MultiTexCoord5" -> 13
          [] s = "gl_MultiTexCoord6" -> 14
          [] s = "gl_MultiTexCoord7" -> 15
          [] s = "CustomAttribute0" -> 1
          [] s = "CustomAttribute1" -> 6
          [] s = "CustomAttribute2" -> 7]

ParseAttribSemantics_Silent(str) ==
    IF str \in DOMAIN KnownSemantics
    THEN [loc |-> KnownSemantics[str], warned |-> FALSE]
    ELSE [loc |-> 0, warned |-> FALSE]

\* The slot returned, and whether debug_warn fired.
ParseAttribSemantics(str) ==
    IF str \in DOMAIN KnownSemantics
    THEN [loc |-> KnownSemantics[str], warned |-> FALSE]
    ELSE [loc |-> 0, warned |-> TRUE]

StreamNames == {"pos", "normal", "color", "uv0", "uv1", "uv2", "uv3"}

SamplerType(t) ==
    CASE t = "sampler1D" -> "GL_TEXTURE_1D"
      [] t = "sampler2D" -> "GL_TEXTURE_2D"
      [] t = "sampler3D" -> "GL_TEXTURE_3D"
      [] t = "samplerCube" -> "GL_TEXTURE_CUBE_MAP"
      [] OTHER -> "GL_TEXTURE_2D"

\* CXeromyces::ValidateEncoded("shader", ...): the grammar wants a program root.
ValidateEncoded(doc) == doc.tag = "program"

\* A stage file compiles when it exists and its source is good.
Compiles(path) == path \in DOMAIN srcOk /\ srcOk[path]

\* CShaderProgram::Reload: re-reads and compiles the two stage files.
Reload(prog) ==
    [prog EXCEPT !.valid = Compiles(prog.vertexFile) /\ Compiles(prog.fragmentFile),
                 !.reloads = @ + 1]

GetFileDependencies(prog) == {prog.vertexFile, prog.fragmentFile}

\* std::weak_ptr<CShaderProgram>: a reference that does not own the program.
WeakPtr(program) == [ptr |-> program, owning |-> FALSE]

\* weak_ptr::lock: the program when it is still alive, else nothing.
Lock(progs, ref) == IF progs[ref.ptr].alive THEN ref.ptr ELSE NULL

AddProgramFileDependency_Replace(hot, program, path) ==
    Put(hot, path, {WeakPtr(program)})

AddProgramFileDependency_Owning(hot, program, path) ==
    Put(hot, path, (IF path \in DOMAIN hot THEN hot[path] ELSE {})
                       \cup {[ptr |-> program, owning |-> TRUE]})

AddProgramFileDependency(hot, program, path) ==
    Put(hot, path, (IF path \in DOMAIN hot THEN hot[path] ELSE {}) \cup {WeakPtr(program)})

RECURSIVE AddDependencies(_, _, _)
AddDependencies(hot, program, paths) ==
    IF paths = {} THEN hot
    ELSE LET p == CHOOSE x \in paths : TRUE
         IN AddDependencies(AddProgramFileDependency(hot, program, p),
                            program, paths \ {p})

ActiveParams_Unconditional(stage, preprocessorDefines) == stage.children

\* The declarations of a stage that pass their "if" condition.
ActiveParams(stage, preprocessorDefines) ==
    SelectSeq(stage.children,
              LAMBDA Param :
                  LET cond == GetNamedItem(Param, "if")
                  IN ~(cond # "" /\ ~TestConditional(preprocessorDefines, cond)))

WithTag(s, tag) == SelectSeq(s, LAMBDA e : e.tag = tag)

StageFile(stages) ==
    IF stages = <<>> THEN ""
    ELSE "shaders/" \o GetNamedItem(stages[Len(stages)], "file")

\* The program object NewProgram constructs from a loaded, validated document.
BuildProgram(name, root, baseDefines) ==
    LET preprocessorDefines == baseDefines
        defineEls == WithTag(root.children, "define")
        defines == AddAll(baseDefines,
                          [i \in 1..Len(defineEls) |->
                              <<GetNamedItem(defineEls[i], "name"),
                                GetNamedItem(defineEls[i], "value")>>])
        vertexEls == WithTag(root.children, "vertex")
        fragmentEls == WithTag(root.children, "fragment")
        vparams == Concat([i \in 1..Len(vertexEls) |->
                              ActiveParams(vertexEls[i], preprocessorDefines)])
        fparams == Concat([i \in 1..Len(fragmentEls) |->
                              ActiveParams(fragmentEls[i], preprocessorDefines)])
        vertexUniforms == MapOf(WithTag(vparams, "uniform"),
                                LAMBDA e : GetNamedItem(e, "name"),
                                LAMBDA e : ToInt(GetNamedItem(e, "loc")))
        fragmentUniforms == MapOf(WithTag(fparams, "uniform"),
                                  LAMBDA e : GetNamedItem(e, "name"),
                                  LAMBDA e : <<ToInt(GetNamedItem(e, "loc")),
                                               SamplerType(GetNamedItem(e, "type"))>>)
        vertexAttribs == MapOf(WithTag(vparams, "attrib"),
                               LAMBDA e : GetNamedItem(e, "name"),
                               LAMBDA e : ParseAttribSemantics(GetNamedItem(e, "semantics")).loc)
        streamFlags == {GetNamedItem(e, "name") : e \in Range(WithTag(vparams, "stream"))}
                           \cap StreamNames
        attribEls == WithTag(vparams, "attrib")
        isGLSL == GetNamedItem(root, "type") = "glsl"
    IN [prog |-> [name |-> name,
                  type |-> IF isGLSL THEN "glsl" ELSE "arb",
                  vertexFile |-> StageFile(vertexEls),
                  fragmentFile |-> StageFile(fragmentEls),
                  defines |-> defines,
                  vertexUniforms |-> IF isGLSL THEN EmptyMap ELSE vertexUniforms,
                  fragmentUniforms |-> IF isGLSL THEN EmptyMap ELSE fragmentUniforms,
                  vertexAttribs |-> IF isGLSL THEN vertexAttribs ELSE EmptyMap,
                  streamFlags |-> streamFlags,
                  valid |-> FALSE,
                  reloads |-> 0,
                  alive |-> TRUE,
                  external |-> FALSE,
                  regs |-> EmptyMap],
        warned |-> SelectSeq([i \in 1..Len(attribEls) |->
                                 IF ParseAttribSemantics(GetNamedItem(attribEls[i], "semantics")).warned
                                 THEN "Invalid attribute semantics" ELSE ""],
                             LAMBDA w : w # "")]

\* The record of the AddProgramFileDependency calls that named the program:
\* how many times it was registered under each path.
Registered(prog, paths) ==
    [prog EXCEPT !.regs = [q \in DOMAIN prog.regs \cup paths |->
                              (IF q \in DOMAIN prog.regs THEN prog.regs[q] ELSE 0)
                              + (IF q \in paths THEN 1 ELSE 0)]]

\* The tail of NewProgram: the object is constructed, reloaded and registered
\* with the files it depends on.
ConstructProgram(m, built) ==
    [ok |-> TRUE,
     program |-> Len(m.progs) + 1,
     m |-> [m EXCEPT !.progs = Append(@, Registered(Reload(built.prog),
                                             GetFileDependencies(Reload(built.prog)))),
                     !.warns = @ \o built.warned,
                     !.hot = AddDependencies(@, Len(m.progs) + 1,
                                             GetFileDependencies(Reload(built.prog)))]]

NewProgram_NoValidation(m, name, baseDefines) ==
    IF progFile[name] = Missing
    THEN [ok |-> FALSE, program |-> NULL, m |-> [m EXCEPT !.progLoads = @ + 1]]
    ELSE ConstructProgram([m EXCEPT !.progLoads = @ + 1],
                          BuildProgram(name, progFile[name], baseDefines))

NewProgram(m, name, baseDefines) ==
    IF progFile[name] = Missing
    THEN [ok |-> FALSE, program |-> NULL, m |-> [m EXCEPT !.progLoads = @ + 1]]
    ELSE IF ~ValidateEncoded(progFile[name])
    THEN [ok |-> FALSE, program |-> NULL, m |-> [m EXCEPT !.progLoads = @ + 1]]
    ELSE ConstructProgram([m EXCEPT !.progLoads = @ + 1],
                          BuildProgram(name, progFile[name], baseDefines))

StoreProgram_SkipFailures(r, key, name) ==
    IF ~r.ok
    THEN [r.m EXCEPT !.logs = Append(@, <<"Failed to load shader", name>>),
                     !.res = NULL]
    ELSE [r.m EXCEPT !.cache = Put(@, key, r.program),
                     !.res = r.program]

\* The tail of LoadProgram after a cache miss: r is what NewProgram returned.
StoreProgram(r, key, name) ==
    IF ~r.ok
    THEN [r.m EXCEPT !.logs = Append(@, <<"Failed to load shader", name>>),
                     !.cache = Put(@, key, NULL),
                     !.res = NULL]
    ELSE [r.m EXCEPT !.cache = Put(@, key, r.program),
                     !.res = r.program]

LoadProgram_NameOnly(m, name, defines) ==
    IF \E k \in DOMAIN m.cache : k.name = name
    THEN [m EXCEPT !.res = m.cache[CHOOSE k \in DOMAIN m.cache : k.name = name]]
    ELSE StoreProgram(NewProgram(m, name, defines),
                      [name |-> name, defines |-> defines], name)

LoadProgram_NoLookup(m, name, defines) ==
    StoreProgram(NewProgram(m, name, defines),
                 [name |-> name, defines |-> defines], name)

LoadProgram_MergedKey(m, name, defines) ==
    IF [name |-> name, defines |-> BuildProgram(name, progFile[name], defines).prog.defines]
           \in DOMAIN m.cache
    THEN [m EXCEPT !.res =
             m.cache[[name |-> name,
                      defines |-> BuildProgram(name, progFile[name], defines).prog.defines]]]
    ELSE StoreProgram(NewProgram(m, name, defines),
                      [name |-> name,
                       defines |-> BuildProgram(name, progFile[name], defines).prog.defines], name)

LoadProgram(m, name, defines) ==
    IF [name |-> name, defines |-> defines] \in DOMAIN m.cache
    THEN [m EXCEPT !.res = m.cache[[name |-> name, defines |-> defines]]]
    ELSE StoreProgram(NewProgram(m, name, defines),
                      [name |-> name, defines |-> defines], name)

\* The state of a program document on disk, and whether its stages compile.
DocumentState(XeroFile) ==
    IF XeroFile = Missing THEN "missing"
    ELSE IF ~ValidateEncoded(XeroFile) THEN "invalid"
    ELSE "ok"

StagesCompile(XeroFile) ==
    \A f \in {StageFile(WithTag(XeroFile.children, "vertex")),
              StageFile(WithTag(XeroFile.children, "fragment"))} : Compiles(f)

FreshProgramStats(XeroFile) ==
    [calls |-> 0, first |-> NULL, same |-> TRUE, loads |-> 0, logs |-> 0,
     document |-> DocumentState(XeroFile),
     compiles |-> DocumentState(XeroFile) = "ok" /\ StagesCompile(XeroFile)]

CountCall(old, res, loads, nlogs) ==
    [old EXCEPT !.calls = @ + 1,
                !.first = IF old.calls = 0 THEN res ELSE @,
                !.same = @ /\ (old.calls = 0 \/ res = old.first),
                !.loads = @ + loads,
                !.logs = @ + nlogs]

\* What a LoadProgram call did, kept per key and in the call trace.
TrackProgram(m, m2, name, key) ==
    [m2 EXCEPT !.pstats = Put(@, key,
                              CountCall(IF key \in DOMAIN m.pstats THEN m.pstats[key]
                                        ELSE FreshProgramStats(progFile[name]),
                                        m2.res, m2.progLoads - m.progLoads,
                                        Len(m2.logs) - Len(m.logs))),
               !.trace = Append(@, [name |-> name, defines |-> key.defines, res |-> m2.res])]

TrackedLoadProgram(m, name, defines) ==
    TrackProgram(m, LoadProgram(m, name, defines), name,
                 [name |-> name, defines |-> defines])

(***************************************************************************)
(* Pipeline state of a pass.                                               *)
(***************************************************************************)
StencilOpStateDefault ==
    [compareOp |-> "ALWAYS", failOp |-> "KEEP", passOp |-> "KEEP", depthFailOp |-> "KEEP"]

MakeDefaultGraphicsPipelineStateDesc ==
    [blendState |->
        [enabled |-> FALSE,
         srcColorBlendFactor |-> "ONE", srcAlphaBlendFactor |-> "ONE",
         dstColorBlendFactor |-> "ZERO", dstAlphaBlendFactor |-> "ZERO",
         colorBlendOp |-> "ADD", alphaBlendOp |-> "ADD",
         constant |-> "0 0 0 0",
         colorWriteMask |-> {"RED", "GREEN", "BLUE", "ALPHA"}],
     rasterizationState |->
        [polygonMode |-> "FILL", cullMode |-> "BACK", frontFace |-> "COUNTER_CLOCKWISE"],
     depthStencilState |->
        [depthTestEnabled |-> TRUE, depthCompareOp |-> "LESS_OR_EQUAL",
         depthWriteEnabled |-> TRUE, stencilTestEnabled |-> FALSE,
         stencilReadMask |-> 255, stencilWriteMask |-> 255, stencilReference |-> 0,
         stencilFrontFace |-> StencilOpStateDefault,
         stencilBackFace |-> StencilOpStateDefault]]

\* Renderer::Backend::Parse*: a markup token to its enumerator.
ParseBlendFactor(str) ==
    CASE str = "zero" -> "ZERO"
      [] str = "one" -> "ONE"
      [] str = "src_alpha" -> "SRC_ALPHA"
      [] str = "one_minus_src_alpha" -> "ONE_MINUS_SRC_ALPHA"
      [] str = "constant_alpha" -> "CONSTANT_ALPHA"
      [] OTHER -> "ZERO"

ParseBlendOp(str) ==
    CASE str = "add" -> "ADD"
      [] str = "subtract" -> "SUBTRACT"
      [] str = "min" -> "MIN"
      [] str = "max" -> "MAX"
      [] OTHER -> "ADD"

ParseCullMode(str) ==
    CASE str = "NONE" -> "NONE"
      [] str = "FRONT" -> "FRONT"
      [] str = "BACK" -> "BACK"
      [] OTHER -> "BACK"

ParseFrontFace(str) ==
    CASE str = "CLOCKWISE" -> "CLOCKWISE"
      [] str = "COUNTER_CLOCKWISE" -> "COUNTER_CLOCKWISE"
      [] OTHER -> "COUNTER_CLOCKWISE"

ParsePolygonMode(str) ==
    CASE str = "FILL" -> "FILL"
      [] str = "LINE" -> "LINE"
      [] OTHER -> "FILL"

ParseCompareOp(str) ==
    CASE str = "never" -> "NEVER"
      [] str = "less" -> "LESS"
      [] str = "equal" -> "EQUAL"
      [] str = "lequal" -> "LESS_OR_EQUAL"
      [] str = "greater" -> "GREATER"
      [] str = "notequal" -> "NOT_EQUAL"
      [] str = "gequal" -> "GREATER_OR_EQUAL"
      [] str = "always" -> "ALWAYS"
      [] OTHER -> "ALWAYS"

ParseStencilOp(str) ==
    CASE str = "keep" -> "KEEP"
      [] str = "zero" -> "ZERO"
      [] str = "replace" -> "REPLACE"
      [] str = "increment_clamp" -> "INCREMENT_AND_CLAMP"
      [] str = "decrement_clamp" -> "DECREMENT_AND_CLAMP"
      [] str = "invert" -> "INVERT"
      [] OTHER -> "KEEP"

\* CColor::ParseString: four numbers, or failure.
ParseColorOk(str) == str \in {"0 0 0 0", "1 1 1 1", "0 0 0 1"}

Has(Element, at) == GetNamedItem(Element, at) # ""

ApplyBlend(d, Element) ==
    LET src == ParseBlendFactor(GetNamedItem(Element, "src"))
        dst == ParseBlendFactor(GetNamedItem(Element, "dst"))
        op == IF Has(Element, "op") THEN ParseBlendOp(GetNamedItem(Element, "op"))
              ELSE d.blendState.colorBlendOp
        opA == IF Has(Element, "op") THEN ParseBlendOp(GetNamedItem(Element, "op"))
               ELSE d.blendState.alphaBlendOp
        constant == IF Has(Element, "constant") /\ ParseColorOk(GetNamedItem(Element, "constant"))
                    THEN GetNamedItem(Element, "constant")
                    ELSE d.blendState.constant
    IN [d EXCEPT !.blendState.enabled = TRUE,
                 !.blendState.srcColorBlendFactor = src,
                 !.blendState.srcAlphaBlendFactor = src,
                 !.blendState.dstColorBlendFactor = dst,
                 !.blendState.dstAlphaBlendFactor = dst,
                 !.blendState.colorBlendOp = op,
                 !.blendState.alphaBlendOp = opA,
                 !.blendState.constant = constant]

ApplyColor_OntoDefault(d, Element) ==
    [d EXCEPT !.blendState.colorWriteMask =
        @ \cup
        (IF GetNamedItem(Element, "mask_red") = "TRUE" THEN {"RED"} ELSE {})
        \cup (IF GetNamedItem(Element, "mask_green") = "TRUE" THEN {"GREEN"} ELSE {})
        \cup (IF GetNamedItem(Element, "mask_blue") = "TRUE" THEN {"BLUE"} ELSE {})
        \cup (IF GetNamedItem(Element, "mask_alpha") = "TRUE" THEN {"ALPHA"} ELSE {})]

ApplyColor(d, Element) ==
    [d EXCEPT !.blendState.colorWriteMask =
        (IF GetNamedItem(Element, "mask_red") = "TRUE" THEN {"RED"} ELSE {})
        \cup (IF GetNamedItem(Element, "mask_green") = "TRUE" THEN {"GREEN"} ELSE {})
        \cup (IF GetNamedItem(Element, "mask_blue") = "TRUE" THEN {"BLUE"} ELSE {})
        \cup (IF GetNamedItem(Element, "mask_alpha") = "TRUE" THEN {"ALPHA"} ELSE {})]

ApplyCull(d, Element) ==
    [d EXCEPT !.rasterizationState.cullMode =
                  IF Has(Element, "mode") THEN ParseCullMode(GetNamedItem(Element, "mode")) ELSE @,
              !.rasterizationState.frontFace =
                  IF Has(Element, "front_face")
                  THEN ParseFrontFace(GetNamedItem(Element, "front_face")) ELSE @]

ApplyDepth_FullReset(d, Element) ==
    [d EXCEPT !.depthStencilState.depthTestEnabled = GetNamedItem(Element, "test") = "TRUE",
              !.depthStencilState.depthCompareOp = ParseCompareOp(GetNamedItem(Element, "func")),
              !.depthStencilState.depthWriteEnabled = GetNamedItem(Element, "mask") = "true"]

ApplyDepth(d, Element) ==
    [d EXCEPT !.depthStencilState.depthTestEnabled =
                  IF Has(Element, "test") THEN GetNamedItem(Element, "test") = "TRUE" ELSE @,
              !.depthStencilState.depthCompareOp =
                  IF Has(Element, "func") THEN ParseCompareOp(GetNamedItem(Element, "func")) ELSE @,
              !.depthStencilState.depthWriteEnabled =
                  IF Has(Element, "mask") THEN GetNamedItem(Element, "mask") = "true" ELSE @]

ApplyPolygon(d, Element) ==
    [d EXCEPT !.rasterizationState.polygonMode =
                  IF Has(Element, "mode") THEN ParsePolygonMode(GetNamedItem(Element, "mode")) ELSE @]

ApplyStencil_FrontOnly(d, Element) ==
    [d EXCEPT !.depthStencilState.stencilFrontFace.compareOp =
                  IF Has(Element, "compare") THEN ParseCompareOp(GetNamedItem(Element, "compare")) ELSE @,
              !.depthStencilState.stencilFrontFace.failOp =
                  IF Has(Element, "fail") THEN ParseStencilOp(GetNamedItem(Element, "fail")) ELSE @,
              !.depthStencilState.stencilFrontFace.passOp =
                  IF Has(Element, "pass") THEN ParseStencilOp(GetNamedItem(Element, "pass")) ELSE @,
              !.depthStencilState.stencilFrontFace.depthFailOp =
                  IF Has(Element, "depth_fail")
                  THEN ParseStencilOp(GetNamedItem(Element, "depth_fail")) ELSE @]

ApplyStencil(d, Element) ==
    [d EXCEPT !.depthStencilState.stencilTestEnabled =
                  IF Has(Element, "test") THEN GetNamedItem(Element, "test") = "TRUE" ELSE @,
              !.depthStencilState.stencilReference =
                  IF Has(Element, "reference") THEN ToInt(GetNamedItem(Element, "reference")) ELSE @,
              !.depthStencilState.stencilReadMask =
                  IF Has(Element, "mask_read") THEN ToInt(GetNamedItem(Element, "mask_read")) ELSE @,
              !.depthStencilState.stencilWriteMask =
                  IF Has(Element, "mask") THEN ToInt(GetNamedItem(Element, "mask")) ELSE @,
              !.depthStencilState.stencilFrontFace.compareOp =
                  IF Has(Element, "compare") THEN ParseCompareOp(GetNamedItem(Element, "compare")) ELSE @,
              !.depthStencilState.stencilBackFace.compareOp =
                  IF Has(Element, "compare") THEN ParseCompareOp(GetNamedItem(Element, "compare")) ELSE @,
              !.depthStencilState.stencilFrontFace.failOp =
                  IF Has(Element, "fail") THEN ParseStencilOp(GetNamedItem(Element, "fail")) ELSE @,
              !.depthStencilState.stencilBackFace.failOp =
                  IF Has(Element, "fail") THEN ParseStencilOp(GetNamedItem(Element, "fail")) ELSE @,
              !.depthStencilState.stencilFrontFace.passOp =
                  IF Has(Element, "pass") THEN ParseStencilOp(GetNamedItem(Element, "pass")) ELSE @,
              !.depthStencilState.stencilBackFace.passOp =
                  IF Has(Element, "pass") THEN ParseStencilOp(GetNamedItem(Element, "pass")) ELSE @,
              !.depthStencilState.stencilFrontFace.depthFailOp =
                  IF Has(Element, "depth_fail")
                  THEN ParseStencilOp(GetNamedItem(Element, "depth_fail")) ELSE @,
              !.depthStencilState.stencilBackFace.depthFailOp =
                  IF Has(Element, "depth_fail")
                  THEN ParseStencilOp(GetNamedItem(Element, "depth_fail")) ELSE @]

ApplyElement(d, Element) ==
    CASE Element.tag = "blend" -> ApplyBlend(d, Element)
      [] Element.tag = "color" -> ApplyColor(d, Element)
      [] Element.tag = "cull" -> ApplyCull(d, Element)
      [] Element.tag = "depth" -> ApplyDepth(d, Element)
      [] Element.tag = "polygon" -> ApplyPolygon(d, Element)
      [] Element.tag = "stencil" -> ApplyStencil(d, Element)
      [] OTHER -> d

RECURSIVE ApplyElements(_, _)
ApplyElements(d, Elements) ==
    IF Elements = <<>> THEN d
    ELSE ApplyElements(ApplyElement(d, Head(Elements)), Tail(Elements))

PassPipelineStateDesc(Pass) ==
    ApplyElements(MakeDefaultGraphicsPipelineStateDesc, Pass.children)

\* The blend-constant parse failures a pass logs.
PassLogs(Pass) ==
    LET bad == SelectSeq(Pass.children,
                         LAMBDA Element : /\ Element.tag = "blend"
                                          /\ Has(Element, "constant")
                                          /\ ~ParseColorOk(GetNamedItem(Element, "constant")))
    IN [i \in 1..Len(bad) |->
           <<"Failed to parse blend constant", GetNamedItem(bad[i], "constant")>>]

(***************************************************************************)
(* Technique selection.                                                    *)
(***************************************************************************)
EvalRequire_BackendOnly(Child, preprocessorDefines) ==
    IF GetNamedItem(Child, "shaders") = "arb"
    THEN [kind |-> "arb", holds |-> ~(backend # "GL_ARB"), capsRead |-> FALSE,
          tested |-> {"shaders"}]
    ELSE IF GetNamedItem(Child, "shaders") = "glsl"
    THEN [kind |-> "glsl", holds |-> ~(backend # "GL"), capsRead |-> FALSE,
          tested |-> {"shaders"}]
    ELSE IF GetNamedItem(Child, "context") # ""
    THEN [kind |-> "context",
          holds |-> TestConditional(preprocessorDefines, GetNamedItem(Child, "context")),
          capsRead |-> FALSE,
          tested |-> {"context"}]
    ELSE [kind |-> "none", holds |-> TRUE, capsRead |-> FALSE, tested |-> {}]

\* One <require> child: which branch tested it, whether it held, and whether
\* the device capabilities were read.
EvalRequire(Child, preprocessorDefines) ==
    IF GetNamedItem(Child, "shaders") = "arb"
    THEN [kind |-> "arb",
          holds |-> ~(backend # "GL_ARB" \/ ~caps.ARBShaders),
          capsRead |-> backend = "GL_ARB",
          tested |-> {"shaders"}]
    ELSE IF GetNamedItem(Child, "shaders") = "glsl"
    THEN [kind |-> "glsl",
          holds |-> ~(backend # "GL"),
          capsRead |-> FALSE,
          tested |-> {"shaders"}]
    ELSE IF GetNamedItem(Child, "context") # ""
    THEN [kind |-> "context",
          holds |-> TestConditional(preprocessorDefines, GetNamedItem(Child, "context")),
          capsRead |-> FALSE,
          tested |-> {"context"}]
    ELSE [kind |-> "none", holds |-> TRUE, capsRead |-> FALSE, tested |-> {}]

RequireIndices(Technique) ==
    {j \in 1..Len(Technique.children) : Technique.children[j].tag = "require"}

IsUsable_AnyHolds(Technique, preprocessorDefines) ==
    \/ RequireIndices(Technique) = {}
    \/ \E j \in RequireIndices(Technique) :
           EvalRequire(Technique.children[j], preprocessorDefines).holds

IsUsable(Technique, preprocessorDefines) ==
    \A j \in RequireIndices(Technique) :
        EvalRequire(Technique.children[j], preprocessorDefines).holds

Evaluated_EarlyExit(Root, preprocessorDefines) ==
    {i \in 1..Len(Root.children) :
        \A h \in 1..(i - 1) : ~IsUsable(Root.children[h], preprocessorDefines)}

\* The candidates whose predicates the selection loop evaluates.
Evaluated(Root, preprocessorDefines) == 1..Len(Root.children)

\* Every predicate evaluation the selection loop makes.
Evaluations(Root, preprocessorDefines) ==
    UNION {{[tech |-> i, child |-> j,
             eval |-> EvalRequire(Root.children[i].children[j], preprocessorDefines)] :
               j \in RequireIndices(Root.children[i])} :
           i \in Evaluated(Root, preprocessorDefines)}

RECURSIVE SeqOfSet(_)
SeqOfSet(S) == IF S = {} THEN <<>>
               ELSE LET x == SetMin(S) IN <<x>> \o SeqOfSet(S \ {x})

\* usableTechs, as indices into the document.
UsableTechs(Root, preprocessorDefines) ==
    SeqOfSet({i \in 1..Len(Root.children) :
                  IsUsable(Root.children[i], preprocessorDefines)})

ChosenTech_Last(usableTechs) == usableTechs[Len(usableTechs)]

ChosenTech(usableTechs) == usableTechs[1]

DefinesOf(Elements) ==
    LET ds == WithTag(Elements, "define")
    IN [i \in 1..Len(ds) |-> <<GetNamedItem(ds[i], "name"), GetNamedItem(ds[i], "value")>>]

TechDefinesForPass_Preceding(Technique, baseDefines, k) ==
    AddAll(baseDefines, DefinesOf(SubSeq(Technique.children, 1, k - 1)))

\* techDefines as the pass at child position k copies it.
TechDefinesForPass(Technique, baseDefines, k) ==
    AddAll(baseDefines, DefinesOf(Technique.children))

PassDefines_TechniqueWins(techDefines, Pass) ==
    AddAll(AddAll(NoDefines, DefinesOf(Pass.children)), techDefines)

\* passDefines as handed to LoadProgram.
PassDefines(techDefines, Pass) == AddAll(techDefines, DefinesOf(Pass.children))

RECURSIVE ResolvePasses(_, _, _, _, _)
RECURSIVE PassResolved(_, _, _, _, _)
ResolvePasses(m, Technique, baseDefines, k, techPasses) ==
    IF k > Len(Technique.children)
    THEN [m |-> m, techPasses |-> techPasses]
    ELSE IF Technique.children[k].tag # "pass"
    THEN ResolvePasses(m, Technique, baseDefines, k + 1, techPasses)
    ELSE PassResolved(
             TrackedLoadProgram(
                 [m EXCEPT !.logs = @ \o PassLogs(Technique.children[k])],
                 GetNamedItem(Technique.children[k], "shader"),
                 PassDefines(TechDefinesForPass(Technique, baseDefines, k),
                             Technique.children[k])),
             Technique, baseDefines, k, techPasses)

\* m is the manager after the pass's LoadProgram, m.res the program it returned.
PassResolved(m, Technique, baseDefines, k, techPasses) ==
    ResolvePasses(m, Technique, baseDefines, k + 1,
                  Append(techPasses,
                         [desc |-> PassPipelineStateDesc(Technique.children[k]),
                          shader |-> m.res]))

AssembleTechnique_NoSort(r, Technique, chosen) ==
    [ok |-> TRUE,
     m |-> [r.m EXCEPT !.chosen = chosen],
     tech |-> [sortByDistance |-> FALSE, passes |-> r.techPasses]]

AssembleTechnique_FailsOnNullProgram(r, Technique, chosen) ==
    [ok |-> \A q \in 1..Len(r.techPasses) : r.techPasses[q].shader # NULL,
     m |-> [r.m EXCEPT !.chosen = chosen],
     tech |-> [sortByDistance |-> WithTag(Technique.children, "sort_by_distance") # <<>>,
               passes |-> r.techPasses]]

\* The tail of NewEffect: the technique object filled from the resolved passes.
AssembleTechnique(r, Technique, chosen) ==
    [ok |-> TRUE,
     m |-> [r.m EXCEPT !.chosen = chosen],
     tech |-> [sortByDistance |-> WithTag(Technique.children, "sort_by_distance") # <<>>,
               passes |-> r.techPasses]]

SelectTechnique_ResolvesBeforeCheck(m, XeroFile, baseDefines, usableTechs) ==
    IF usableTechs = <<>>
    THEN [ok |-> FALSE,
          m |-> [ResolvePasses(m, XeroFile.children[1], baseDefines, 1, <<>>).m
                    EXCEPT !.warns = Append(@, "Can't find a usable technique")],
          tech |-> NULL]
    ELSE AssembleTechnique(
             ResolvePasses(m, XeroFile.children[ChosenTech(usableTechs)],
                           baseDefines, 1, <<>>),
             XeroFile.children[ChosenTech(usableTechs)],
             ChosenTech(usableTechs))

SelectTechnique(m, XeroFile, baseDefines, usableTechs) ==
    IF usableTechs = <<>>
    THEN [ok |-> FALSE,
          m |-> [m EXCEPT !.warns = Append(@, "Can't find a usable technique")],
          tech |-> NULL]
    ELSE AssembleTechnique(
             ResolvePasses(m, XeroFile.children[ChosenTech(usableTechs)],
                           baseDefines, 1, <<>>),
             XeroFile.children[ChosenTech(usableTechs)],
             ChosenTech(usableTechs))

NewEffect(m, name, baseDefines) ==
    IF effFile[name] = Missing
    THEN [ok |-> FALSE, m |-> [m EXCEPT !.effLoads = @ + 1], tech |-> NULL]
    ELSE SelectTechnique([m EXCEPT !.effLoads = @ + 1,
                                   !.evals = Evaluations(effFile[name], baseDefines)],
                         effFile[name], baseDefines,
                         UsableTechs(effFile[name], baseDefines))

HashCombine(seed, v) == <<seed, v>>

EffectCacheKeyHash(key) == HashCombine(HashCombine(0, key.name), GetHash(key.defines))

EffectCacheKeyEq(a, b) == a.name = b.name /\ a.defines = b.defines

EffectCacheFind(ecache, key) ==
    {k \in DOMAIN ecache : /\ EffectCacheKeyHash(k) = EffectCacheKeyHash(key)
                           /\ EffectCacheKeyEq(k, key)}

StoreEffect_SkipFailures(r, key, name) ==
    IF ~r.ok
    THEN [r.m EXCEPT !.logs = Append(@, <<"Failed to load effect", name>>),
                     !.res = NULL]
    ELSE [r.m EXCEPT !.techs = Append(@, r.tech),
                     !.ecache = Put(@, key, Len(r.m.techs) + 1),
                     !.res = Len(r.m.techs) + 1]

\* The tail of LoadEffect after a cache miss: r is what NewEffect returned.
StoreEffect(r, key, name) ==
    IF ~r.ok
    THEN [r.m EXCEPT !.logs = Append(@, <<"Failed to load effect", name>>),
                     !.ecache = Put(@, key, NULL),
                     !.res = NULL]
    ELSE [r.m EXCEPT !.techs = Append(@, r.tech),
                     !.ecache = Put(@, key, Len(r.m.techs) + 1),
                     !.res = Len(r.m.techs) + 1]

LoadEffect_NoLookup(m, name, defines) ==
    StoreEffect(NewEffect(m, name, defines), [name |-> name, defines |-> defines], name)

LoadEffect(m, name, defines) ==
    IF EffectCacheFind(m.ecache, [name |-> name, defines |-> defines]) # {}
    THEN [m EXCEPT !.res =
             m.ecache[CHOOSE k \in EffectCacheFind(m.ecache,
                                       [name |-> name, defines |-> defines]) : TRUE]]
    ELSE StoreEffect(NewEffect(m, name, defines),
                     [name |-> name, defines |-> defines], name)

FreshEffectStats(XeroFile) ==
    [calls |-> 0, first |-> NULL, same |-> TRUE, loads |-> 0, logs |-> 0,
     document |-> IF XeroFile = Missing THEN "missing" ELSE "ok",
     compiles |-> TRUE]

NewLogs(m, m2, entry) ==
    Len(SelectSeq(SubSeq(m2.logs, Len(m.logs) + 1, Len(m2.logs)), LAMBDA e : e = entry))

\* What a LoadEffect call did, kept per key.
TrackEffect(m, m2, name, key) ==
    [m2 EXCEPT !.estats = Put(@, key,
                              CountCall(IF key \in DOMAIN m.estats THEN m.estats[key]
                                        ELSE FreshEffectStats(effFile[name]),
                                        m2.res, m2.effLoads - m.effLoads,
                                        NewLogs(m, m2, <<"Failed to load effect", name>>)))]

TrackedLoadEffect(m, name, defines) ==
    TrackEffect(m, LoadEffect(m, name, defines), name,
                [name |-> name, defines |-> defines])

GetNumEffectsLoaded(m) == Cardinality(DOMAIN m.ecache)

(***************************************************************************)
(* Hotloading.                                                             *)
(***************************************************************************)
ReloadChangedFile_NoLock(m, path) ==
    IF path \notin DOMAIN m.hot
    THEN [m EXCEPT !.status = "INFO::OK"]
    ELSE [m EXCEPT !.progs = [p \in DOMAIN m.progs |->
                                 IF \E ref \in m.hot[path] : ref.ptr = p
                                 THEN Reload(m.progs[p])
                                 ELSE m.progs[p]],
                   !.status = "INFO::OK"]

ReloadChangedFile_Evicts(m, path) ==
    IF path \notin DOMAIN m.hot
    THEN [m EXCEPT !.status = "INFO::OK"]
    ELSE [m EXCEPT !.progs = [p \in DOMAIN m.progs |->
                                 IF \E ref \in m.hot[path] : Lock(m.progs, ref) = p
                                 THEN Reload(m.progs[p])
                                 ELSE m.progs[p]],
                   !.cache = [k \in {j \in DOMAIN m.cache :
                                        \A ref \in m.hot[path] : ref.ptr # m.cache[j]}
                                 |-> m.cache[k]],
                   !.status = "INFO::OK"]

ReloadChangedFile(m, path) ==
    IF path \notin DOMAIN m.hot
    THEN [m EXCEPT !.status = "INFO::OK"]
    ELSE [m EXCEPT !.progs = [p \in DOMAIN m.progs |->
                                 IF \E ref \in m.hot[path] : Lock(m.progs, ref) = p
                                 THEN Reload(m.progs[p])
                                 ELSE m.progs[p]],
                   !.status = "INFO::OK"]

(***************************************************************************)
(* The documents of the virtual file system.                               *)
(***************************************************************************)
Leaf(tag, attrs) == El(tag, attrs, <<>>)

ModelDoc ==
    El("program", [type |-> "glsl"],
       <<Leaf("define", [name |-> "B", value |-> "2"]),
         El("vertex", [file |-> "model.vs"],
            <<Leaf("stream", [name |-> "pos"]),
              Leaf("attrib", [name |-> "a_vertex", semantics |-> "gl_Vertex"]),
              Leaf("attrib", [name |-> "a_uv0", semantics |-> "gl_MultiTexCoord0", if |-> "A"])>>),
         El("fragment", [file |-> "shared.fs"],
            <<Leaf("uniform", [name |-> "baseTex", loc |-> "0", type |-> "sampler2D"])>>)>>)

SolidDoc ==
    El("program", [type |-> "arb"],
       <<El("vertex", [file |-> "solid.vp"],
            <<Leaf("uniform", [name |-> "transform", loc |-> "0"]),
              Leaf("stream", [name |-> "pos"])>>),
         El("fragment", [file |-> "shared.fs"],
            <<Leaf("uniform", [name |-> "color", loc |-> "1", if |-> "B"])>>)>>)

\* A document the program grammar rejects.
InvalidDoc == El("shader", EmptyMap, <<>>)

ProgNames == {"model", "solid"}

ProgDocOf(name) == IF name = "model" THEN ModelDoc ELSE SolidDoc

SourcePaths == {"shaders/model.vs", "shaders/solid.vp", "shaders/shared.fs"}

NotifiedPaths == {"shaders/model.vs", "shaders/shared.fs", "shaders/unrelated.fs"}

RequireEl(attrs) == Leaf("require", attrs)

DefineEl(name, value) == Leaf("define", [name |-> name, value |-> value])

PassEl(shader, elements) == El("pass", [shader |-> shader], elements)

TechniqueEl(children) == El("technique", EmptyMap, children)

EffectEl(techs) == El("effect", EmptyMap, techs)

\* Two candidates, one per backend flavor; the glsl one has two passes.
FxDoc ==
    EffectEl(<<TechniqueEl(<<RequireEl([shaders |-> "arb"]), PassEl("solid", <<>>)>>),
             TechniqueEl(<<RequireEl([shaders |-> "glsl"]),
                         PassEl("model", <<DefineEl("A", "2")>>),
                         Leaf("sort_by_distance", EmptyMap),
                         PassEl("model", <<>>)>>)>>)

\* One candidate, usable in a context that defines A.
UiDoc ==
    EffectEl(<<TechniqueEl(<<RequireEl([context |-> "A"]),
                         PassEl("solid", <<Leaf("blend", [src |-> "src_alpha",
                                                        dst |-> "one_minus_src_alpha"])>>)>>)>>)

EffNames == {"fx", "ui"}

EffDocOf(name) == IF name = "fx" THEN FxDoc ELSE UiDoc

Backends == {"GL", "GL_ARB", "DUMMY"}

Capabilities == [ARBShaders : BOOLEAN]

\* The define sets callers ask with, as the Add calls that build them.
CallerInserts ==
    {<<>>, <<<<"A", "1">>, <<"B", "1">>>>, <<<<"B", "1">>, <<"A", "1">>>>}

(***************************************************************************)
(* The state machine.                                                      *)
(***************************************************************************)
NoCall == [op |-> "", name |-> "", ins |-> <<>>, res |-> NULL, status |-> "",
           trace |-> <<>>, evals |-> {}, chosen |-> 0,
           dProgLoads |-> 0, dEffLoads |-> 0, dReloads |-> 0, dLogs |-> 0,
           dCache |-> 0, dEffects |-> 0, dTechs |-> 0, dReloadsOf |-> <<>>,
           cacheKept |-> TRUE, ecacheKept |-> TRUE, inPlace |-> TRUE, dWarns |-> 0]

InitManager ==
    /\ m_ProgramCache = EmptyMap
    /\ m_EffectCache = EmptyMap
    /\ m_HotloadFiles = EmptyMap
    /\ programs = <<>>
    /\ techniques = <<>>
    /\ progLoads = 0
    /\ effLoads = 0
    /\ logs = <<>>
    /\ warns = <<>>
    /\ pstats = EmptyMap
    /\ estats = EmptyMap
    /\ last = NoCall
    /\ asked = {}
    /\ ncalls = 0

Init ==
    /\ InitManager
    /\ progFile = [n \in ProgNames |-> ProgDocOf(n)]
    /\ effFile = [n \in EffNames |-> EffDocOf(n)]
    /\ srcOk = [p \in SourcePaths |-> TRUE]
    /\ backend \in Backends
    /\ caps \in Capabilities

Mgr ==
    [cache |-> m_ProgramCache, ecache |-> m_EffectCache, hot |-> m_HotloadFiles,
     progs |-> programs, techs |-> techniques, progLoads |-> progLoads,
     effLoads |-> effLoads, logs |-> logs, warns |-> warns, pstats |-> pstats,
     estats |-> estats, res |-> NULL, status |-> "", trace |-> <<>>, evals |-> {},
     chosen |-> 0]

RECURSIVE SumReloads(_)
SumReloads(progs) ==
    IF progs = <<>> THEN 0 ELSE Head(progs).reloads + SumReloads(Tail(progs))

Commit(m, op, name, ins) ==
    /\ m_ProgramCache' = m.cache
    /\ m_EffectCache' = m.ecache
    /\ m_HotloadFiles' = m.hot
    /\ programs' = m.progs
    /\ techniques' = m.techs
    /\ progLoads' = m.progLoads
    /\ effLoads' = m.effLoads
    /\ logs' = m.logs
    /\ warns' = m.warns
    /\ pstats' = m.pstats
    /\ estats' = m.estats
    /\ last' = [op |-> op, name |-> name, ins |-> ins, res |-> m.res,
                status |-> m.status, trace |-> m.trace, evals |-> m.evals,
                chosen |-> m.chosen,
                dProgLoads |-> m.progLoads - progLoads,
                dEffLoads |-> m.effLoads - effLoads,
                dReloads |-> SumReloads(m.progs) - SumReloads(programs),
                dLogs |-> Len(m.logs) - Len(logs),
                dCache |-> Cardinality(DOMAIN m.cache) - Cardinality(DOMAIN m_ProgramCache),
                dEffects |-> GetNumEffectsLoaded(m) - GetNumEffectsLoaded(Mgr),
                dTechs |-> Len(m.techs) - Len(techniques),
                dReloadsOf |-> [p \in 1..Len(m.progs) |->
                                   m.progs[p].reloads
                                   - (IF p <= Len(programs) THEN programs[p].reloads ELSE 0)],
                cacheKept |-> m.cache = m_ProgramCache,
                ecacheKept |-> m.ecache = m_EffectCache /\ m.techs = techniques,
                inPlace |-> /\ Len(m.progs) = Len(programs)
                            /\ \A p \in 1..Len(programs) :
                                   [m.progs[p] EXCEPT !.valid = programs[p].valid,
                                                      !.reloads = programs[p].reloads]
                                       = programs[p],
                dWarns |-> Len(m.warns) - Len(warns)]
    /\ asked' = asked \cup {[op |-> op, name |-> name, ins |-> ins]}
    /\ ncalls' = ncalls + 1

Environment == <<progFile, effFile, srcOk, backend, caps>>

Manager == <<m_ProgramCache, m_EffectCache, m_HotloadFiles, programs, techniques,
             progLoads, effLoads, logs, warns, pstats, estats, last, asked>>

DoLoadProgram ==
    /\ \E name \in ProgNames, ins \in CallerInserts :
           Commit(TrackedLoadProgram(Mgr, name, MakeDefines(ins)), "LoadProgram", name, ins)
    /\ UNCHANGED Environment

CallLoadProgram == ncalls < MaxCalls /\ DoLoadProgram

CallLoadEffect ==
    /\ ncalls < MaxCalls
    /\ \E name \in EffNames, ins \in CallerInserts :
           Commit(TrackedLoadEffect(Mgr, name, MakeDefines(ins)), "LoadEffect", name, ins)
    /\ UNCHANGED Environment

DoReloadChangedFile ==
    /\ \E path \in NotifiedPaths :
           Commit(ReloadChangedFile(Mgr, path), "ReloadChangedFile", path, <<>>)
    /\ UNCHANGED Environment

CallReloadChangedFile == ncalls < MaxCalls /\ DoReloadChangedFile

\* The world outside the manager: documents and sources are edited on disk.
EditProgramDocument ==
    /\ ncalls < MaxCalls
    /\ \E name \in ProgNames : \E doc \in {Missing, InvalidDoc, ProgDocOf(name)} :
           /\ doc # progFile[name]
           /\ progFile' = [progFile EXCEPT ![name] = doc]
    /\ ncalls' = ncalls + 1
    /\ UNCHANGED <<effFile, srcOk, backend, caps>>
    /\ UNCHANGED Manager

EditEffectDocument ==
    /\ ncalls < MaxCalls
    /\ \E name \in EffNames : \E doc \in {Missing, EffDocOf(name)} :
           /\ doc # effFile[name]
           /\ effFile' = [effFile EXCEPT ![name] = doc]
    /\ ncalls' = ncalls + 1
    /\ UNCHANGED <<progFile, srcOk, backend, caps>>
    /\ UNCHANGED Manager

EditSource ==
    /\ ncalls < MaxCalls
    /\ \E path \in SourcePaths : srcOk' = [srcOk EXCEPT ![path] = ~@]
    /\ ncalls' = ncalls + 1
    /\ UNCHANGED <<progFile, effFile, backend, caps>>
    /\ UNCHANGED Manager

Next ==
    \/ CallLoadProgram
    \/ CallLoadEffect
    \/ CallReloadChangedFile
    \/ EditProgramDocument
    \/ EditEffectDocument
    \/ EditSource

Spec == Init /\ [][Next]_vars

(***************************************************************************)
(* Hotloading with programs that owners outside the manager construct,     *)
(* register with the tracker and let go of.                                *)
(***************************************************************************)
\* p has a strong owner: a program cache entry, a pass of a technique, an
\* owner outside the manager, or a tracker entry that would own it.
Owned(m, p) ==
    \/ \E k \in DOMAIN m.cache : m.cache[k] = p
    \/ \E t \in 1..Len(m.techs) : \E q \in 1..Len(m.techs[t].passes) :
           m.techs[t].passes[q].shader = p
    \/ m.progs[p].external
    \/ \E path \in DOMAIN m.hot : [ptr |-> p, owning |-> TRUE] \in m.hot[path]

\* The owner outside the manager lets go of p; the program is destroyed when
\* that was its last strong owner.
Released(m, p) ==
    [m EXCEPT !.progs[p].external = FALSE,
              !.progs[p].alive = Owned([m EXCEPT !.progs[p].external = FALSE], p)]

\* A program constructed outside the manager, held by its maker.
ExternalProgram(name) ==
    [Reload(BuildProgram(name, ProgDocOf(name), NoDefines).prog) EXCEPT !.external = TRUE]

\* AddProgramFileDependency called for program p, an existing program or the
\* next one made.
Depend(m, p, path) ==
    [m EXCEPT !.hot = AddProgramFileDependency(@, p, path),
              !.progs[p] = Registered(@, {path})]

HotRegisterExternalProgram ==
    /\ ncalls < MaxHotSteps
    /\ \E path \in NotifiedPaths :
           Commit(Depend([Mgr EXCEPT !.progs = Append(@, ExternalProgram("solid"))],
                         Len(programs) + 1, path),
                  "RegisterExternalProgram", path, <<>>)
    /\ UNCHANGED Environment

HotAddProgramFileDependency ==
    /\ ncalls < MaxHotSteps
    /\ \E p \in 1..Len(programs) : \E path \in NotifiedPaths :
           /\ programs[p].alive
           /\ Commit(Depend(Mgr, p, path), "AddProgramFileDependency", path, <<>>)
    /\ UNCHANGED Environment

HotReleaseProgram ==
    /\ ncalls < MaxHotSteps
    /\ \E p \in 1..Len(programs) :
           /\ programs[p].external
           /\ Commit(Released(Mgr, p), "ReleaseProgram", "", <<>>)
    /\ UNCHANGED Environment

HotLoadProgram == ncalls < MaxHotSteps /\ DoLoadProgram

HotReloadChangedFile == ncalls < MaxHotSteps /\ DoReloadChangedFile

InitHot ==
    /\ Init
    /\ backend = "GL"
    /\ caps = [ARBShaders |-> TRUE]

NextHot ==
    \/ HotLoadProgram
    \/ HotReloadChangedFile
    \/ HotRegisterExternalProgram
    \/ HotAddProgramFileDependency
    \/ HotReleaseProgram

SpecHot == InitHot /\ [][NextHot]_vars

(***************************************************************************)
(* Technique resolution over a family of effect documents: the document    *)
(* under "fx" is any sequence of candidate techniques, or one technique    *)
(* with any sequence of define, pass and sort tags.                        *)
(***************************************************************************)
TechTemplates ==
    {TechniqueEl(<<PassEl("model", <<>>)>>),
     TechniqueEl(<<RequireEl([shaders |-> "arb"]), PassEl("solid", <<>>)>>),
     TechniqueEl(<<RequireEl([shaders |-> "glsl"]), PassEl("model", <<>>)>>),
     TechniqueEl(<<RequireEl([context |-> "A"]), PassEl("solid", <<>>)>>),
     TechniqueEl(<<RequireEl([shaders |-> "glsl", context |-> "B"]), PassEl("model", <<>>)>>),
     TechniqueEl(<<RequireEl([shaders |-> "glsl"]), RequireEl([context |-> "A"]),
                   PassEl("solid", <<>>), PassEl("model", <<>>)>>),
     TechniqueEl(<<RequireEl([context |-> "B"]), Leaf("sort_by_distance", EmptyMap),
                   PassEl("solid", <<>>), PassEl("model", <<>>)>>)}

SelectionDocs ==
    {EffectEl(ts) : ts \in UNION {[1..n -> TechTemplates] : n \in 1..MaxTechs}}

LayerKinds ==
    {DefineEl("A", "2"),
     DefineEl("A", "0"),
     DefineEl("C", "1"),
     Leaf("sort_by_distance", EmptyMap),
     PassEl("model", <<>>),
     PassEl("model", <<Leaf("depth", [test |-> "TRUE"]), DefineEl("A", "3")>>),
     PassEl("solid", <<DefineEl("C", "0"), Leaf("cull", [mode |-> "NONE"])>>)}

LayerDocs ==
    {EffectEl(<<TechniqueEl(cs)>>) : cs \in SeqsUpTo(LayerKinds, MaxChildren)}

InitTech ==
    /\ InitManager
    /\ progFile = [n \in ProgNames |-> ProgDocOf(n)]
    /\ srcOk = [p \in SourcePaths |-> TRUE]
    /\ \/ /\ \E doc \in SelectionDocs : effFile = [n \in EffNames |-> doc]
          /\ backend \in Backends
          /\ caps \in Capabilities
       \/ /\ \E doc \in LayerDocs : effFile = [n \in EffNames |-> doc]
          /\ backend = "GL"
          /\ caps = [ARBShaders |-> TRUE]

ResolveEffect ==
    /\ ncalls < MaxResolves
    /\ \E ins \in CallerInserts :
           Commit(TrackedLoadEffect(Mgr, "fx", MakeDefines(ins)), "LoadEffect", "fx", ins)
    /\ UNCHANGED Environment

NextTech == ResolveEffect

SpecTech == InitTech /\ [][NextTech]_vars

(***************************************************************************)
(* Effect resolution over program documents that may be missing or         *)
(* rejected: the effect document under "fx" is one of the layering family. *)
(***************************************************************************)
FailureFiles ==
    {[n \in ProgNames |-> ProgDocOf(n)],
     [n \in ProgNames |-> IF n = "solid" THEN Missing ELSE ProgDocOf(n)],
     [n \in ProgNames |-> IF n = "model" THEN InvalidDoc ELSE ProgDocOf(n)],
     [n \in ProgNames |-> IF n = "model" THEN Missing ELSE InvalidDoc]}

InitFail ==
    /\ InitManager
    /\ progFile \in FailureFiles
    /\ srcOk = [p \in SourcePaths |-> TRUE]
    /\ \E doc \in LayerDocs : effFile = [n \in EffNames |-> doc]
    /\ backend = "GL"
    /\ caps = [ARBShaders |-> TRUE]

SpecFail == InitFail /\ [][NextTech]_vars

(***************************************************************************)
(* Pass state over a family of effect documents: the document under "fx"   *)
(* is one technique of one pass carrying any sequence of state tags, alone *)
(* or beside a sibling pass.                                               *)
(***************************************************************************)
StateKinds ==
    {Leaf("depth", [test |-> "FALSE"]),
     Leaf("depth", [func |-> "always", mask |-> "false"]),
     Leaf("cull", [mode |-> "NONE"]),
     Leaf("cull", [front_face |-> "CLOCKWISE"]),
     Leaf("polygon", [mode |-> "LINE"]),
     Leaf("blend", [src |-> "src_alpha", dst |-> "one_minus_src_alpha"]),
     Leaf("blend", [src |-> "one", dst |-> "one", op |-> "max", constant |-> "1 1 1 1"]),
     Leaf("blend", [src |-> "one", dst |-> "zero", constant |-> "red"]),
     Leaf("color", [mask_red |-> "TRUE", mask_alpha |-> "FALSE"]),
     Leaf("color", [mask_green |-> "TRUE", mask_blue |-> "TRUE", mask_alpha |-> "TRUE"]),
     Leaf("color", EmptyMap),
     Leaf("stencil", [test |-> "TRUE", reference |-> "1", compare |-> "equal"]),
     Leaf("stencil", [mask_read |-> "3", mask |-> "5", fail |-> "zero",
                      pass |-> "replace", depth_fail |-> "invert"])}

StatePasses == {PassEl("model", es) : es \in SeqsUpTo(StateKinds, MaxStateTags)}

SiblingPasses == {PassEl("model", <<>>), PassEl("solid", <<Leaf("depth", [test |-> "FALSE"])>>)}

StateDocs ==
    {EffectEl(<<TechniqueEl(<<p>>)>>) : p \in StatePasses}
    \cup {EffectEl(<<TechniqueEl(<<p, q>>)>>) : p \in StatePasses, q \in SiblingPasses}
    \cup {EffectEl(<<TechniqueEl(<<q, p>>)>>) : p \in StatePasses, q \in SiblingPasses}

InitState ==
    /\ InitManager
    /\ progFile = [n \in ProgNames |-> ProgDocOf(n)]
    /\ srcOk = [p \in SourcePaths |-> TRUE]
    /\ \E doc \in StateDocs : effFile = [n \in EffNames |-> doc]
    /\ backend = "GL"
    /\ caps = [ARBShaders |-> TRUE]

SpecState == InitState /\ [][NextTech]_vars

(***************************************************************************)
(* Program resolution over a family of program documents: the document     *)
(* under "model" has any defines, then a vertex stage with any sequence of *)
(* declarations, then a fragment stage.                                    *)
(***************************************************************************)
ProgDefineKinds == {DefineEl("A", "1"), DefineEl("A", "0"), DefineEl("B", "1")}

VertexParamKinds ==
    {Leaf("attrib", [name |-> "a_vertex", semantics |-> "gl_Vertex"]),
     Leaf("attrib", [name |-> "a_bogus", semantics |-> "gl_Bogus"]),
     Leaf("attrib", [name |-> "a_uv0", semantics |-> "gl_MultiTexCoord0", if |-> "A"]),
     Leaf("attrib", [name |-> "a_tangent", semantics |-> "tangent", if |-> "B"]),
     Leaf("stream", [name |-> "uv0", if |-> "A"]),
     Leaf("uniform", [name |-> "transform", loc |-> "0", if |-> "B"])}

FragmentParams ==
    {<<>>, <<Leaf("uniform", [name |-> "color", loc |-> "1", if |-> "A"])>>}

ProgramEl(type, defs, vparams, fparams) ==
    El("program", [type |-> type],
       defs \o <<El("vertex", [file |-> "model.vs"], vparams),
                 El("fragment", [file |-> "shared.fs"], fparams)>>)

ProgramDocs ==
    {ProgramEl(type, defs, vparams, fparams) :
        type \in {"glsl", "arb"},
        defs \in SeqsUpTo(ProgDefineKinds, 2),
        vparams \in SeqsUpTo(VertexParamKinds, MaxParams),
        fparams \in FragmentParams}

InitProg ==
    /\ InitManager
    /\ \E doc \in ProgramDocs : progFile = [n \in ProgNames |-> doc]
    /\ effFile = [n \in EffNames |-> EffDocOf(n)]
    /\ srcOk = [p \in SourcePaths |-> TRUE]
    /\ backend = "GL"
    /\ caps = [ARBShaders |-> TRUE]

ResolveProgram ==
    /\ ncalls < MaxResolves
    /\ \E ins \in CallerInserts :
           Commit(TrackedLoadProgram(Mgr, "model", MakeDefines(ins)), "LoadProgram", "model", ins)
    /\ UNCHANGED Environment

NextProg == ResolveProgram

SpecProg == InitProg /\ [][NextProg]_vars

(***************************************************************************)
(* Program requests over program documents that declare defines of their   *)
(* own: both names resolve to one document of the family.                  *)
(***************************************************************************)
KeyDocs ==
    {ProgramEl(type, defs, vparams, <<>>) :
        type \in {"glsl", "arb"},
        defs \in SeqsUpTo(ProgDefineKinds, 2),
        vparams \in {<<>>, <<Leaf("attrib", [name |-> "a_uv0",
                                              semantics |-> "gl_MultiTexCoord0",
                                              if |-> "A"])>>}}

InitKey ==
    /\ InitManager
    /\ \E doc \in KeyDocs : progFile = [n \in ProgNames |-> doc]
    /\ effFile = [n \in EffNames |-> EffDocOf(n)]
    /\ srcOk = [p \in SourcePaths |-> TRUE]
    /\ backend = "GL"
    /\ caps = [ARBShaders |-> TRUE]

NextKey == CallLoadProgram

SpecKey == InitKey /\ [][NextKey]_vars

(***************************************************************************)
(* Properties of the two caches.                                           *)
(***************************************************************************)
KeyOf(name, ins) == [name |-> name, defines |-> MakeDefines(ins)]

\* The name -> value pairs a sequence of Add calls leaves, by the last Add
\* of each name.
FinalMap(ins) ==
    [n \in {ins[i][1] : i \in 1..Len(ins)} |->
        ins[SetMax({i \in 1..Len(ins) : ins[i][1] = n})][2]]

SamePairs(a, b) == FinalMap(a) = FinalMap(b)

LastIsRepeat(op, stats) ==
    /\ last.op = op
    /\ KeyOf(last.name, last.ins) \in DOMAIN stats
    /\ stats[KeyOf(last.name, last.ins)].calls >= 2

NoFileRead == last.dProgLoads = 0 /\ last.dEffLoads = 0 /\ last.dReloads = 0

\* C1: a LoadProgram (LoadEffect) call with a key that was asked before
\* returns the handle the first call with that key returned and reads no
\* file: no document is loaded for a key more than once, whatever calls,
\* notifications and edits on disk came in between.
C1_IdempotentCaching ==
    /\ \A k \in DOMAIN pstats : pstats[k].same /\ pstats[k].loads <= 1
    /\ \A k \in DOMAIN estats : estats[k].same /\ estats[k].loads <= 1
    /\ LastIsRepeat("LoadProgram", pstats) =>
           /\ last.res = pstats[KeyOf(last.name, last.ins)].first
           /\ NoFileRead
    /\ LastIsRepeat("LoadEffect", estats) =>
           /\ last.res = estats[KeyOf(last.name, last.ins)].first
           /\ NoFileRead

\* A program key and an effect key have both been asked twice, and the latest
\* call was one of the repeats, answered with a live handle.
C1_Witness ==
    /\ \E k \in DOMAIN estats : estats[k].calls >= 2 /\ estats[k].first # NULL
    /\ LastIsRepeat("LoadProgram", pstats)
    /\ last.res # NULL

\* C2: when the document of a name is missing at the first call, all the
\* calls with that key together load the document once, log one error and
\* return the null handle every time, and the null handle is what the cache
\* holds for the key.
C2_FailureMemoization ==
    /\ \A k \in DOMAIN pstats :
           pstats[k].document = "missing" =>
               /\ pstats[k].loads = 1
               /\ pstats[k].logs = 1
               /\ pstats[k].first = NULL
               /\ pstats[k].same
               /\ k \in DOMAIN m_ProgramCache
               /\ m_ProgramCache[k] = NULL
    /\ \A k \in DOMAIN estats :
           estats[k].document = "missing" =>
               /\ estats[k].loads = 1
               /\ estats[k].logs = 1
               /\ estats[k].first = NULL
               /\ estats[k].same
               /\ k \in DOMAIN m_EffectCache
               /\ m_EffectCache[k] = NULL

\* A key whose document was missing has been asked twice.
C2_Witness ==
    /\ LastIsRepeat("LoadProgram", pstats)
    /\ pstats[KeyOf(last.name, last.ins)].document = "missing"
    /\ last.res = NULL
    /\ Len(logs) = 1

C2_WitnessEffect ==
    /\ LastIsRepeat("LoadEffect", estats)
    /\ estats[KeyOf(last.name, last.ins)].document = "missing"

ProgramFailed(st) == st.document # "ok" \/ ~st.compiles

\* C3 as stated: a load failure, a validation failure and a compile failure
\* each make LoadProgram return the null handle and cache it under the key.
C3_EveryFailureIsNull ==
    \A k \in DOMAIN pstats :
        ProgramFailed(pstats[k]) =>
            /\ pstats[k].first = NULL
            /\ k \in DOMAIN m_ProgramCache
            /\ m_ProgramCache[k] = NULL

\* C3, amended: a load failure and a validation failure make LoadProgram
\* return the null handle, cached under the key; when the document is good
\* and a stage fails to compile, LoadProgram returns a program object and
\* caches that object under the key.
C3_DocumentFailureIsNull ==
    \A k \in DOMAIN pstats :
        /\ k \in DOMAIN m_ProgramCache
        /\ m_ProgramCache[k] = pstats[k].first
        /\ pstats[k].document # "ok" => pstats[k].first = NULL
        /\ pstats[k].document = "ok" =>
               /\ pstats[k].first # NULL
               /\ pstats[k].first \in 1..Len(programs)
               /\ programs[pstats[k].first].name = k.name

\* A key asked while its document failed validation.
C3_Witness ==
    /\ last.op = "LoadProgram"
    /\ KeyOf(last.name, last.ins) \in DOMAIN pstats
    /\ pstats[KeyOf(last.name, last.ins)].document = "invalid"
    /\ pstats[KeyOf(last.name, last.ins)].calls = 1
    /\ last.res = NULL

\* The calls made before with the same name and the same pairs, written in
\* another order of Add calls.
Reordered ==
    {a \in asked : /\ a.op = last.op
                   /\ a.name = last.name
                   /\ a.ins # last.ins
                   /\ SamePairs(a.ins, last.ins)}

ReorderedKeysAgree ==
    \A a, b \in CallerInserts : \A n \in EffNames \cup ProgNames :
        SamePairs(a, b) =>
            /\ EffectCacheKeyEq(KeyOf(n, a), KeyOf(n, b))
            /\ EffectCacheKeyHash(KeyOf(n, a)) = EffectCacheKeyHash(KeyOf(n, b))

\* C4: define sets with the same pairs are equal keys with equal hashes
\* whatever the order of the Add calls that built them, and a call with such
\* a set after a call with the other is answered from the entry of the first
\* and adds no entry.
C4_KeyEqualityByValue ==
    /\ ReorderedKeysAgree
    /\ (last.op = "LoadEffect" /\ Reordered # {}) =>
           /\ last.res = estats[KeyOf(last.name, last.ins)].first
           /\ last.dEffects = 0
           /\ last.dCache = 0
           /\ NoFileRead
    /\ (last.op = "LoadProgram" /\ Reordered # {}) =>
           /\ last.res = pstats[KeyOf(last.name, last.ins)].first
           /\ last.dEffects = 0
           /\ last.dCache = 0
           /\ NoFileRead

\* An effect asked with A then B, then asked again with B then A.
C4_Witness ==
    /\ last.op = "LoadEffect"
    /\ Reordered # {}
    /\ last.res # NULL

(***************************************************************************)
(* Properties of technique resolution, stated of the latest LoadEffect     *)
(* call when it was a cache miss on a document that loaded.                *)
(***************************************************************************)
LastDoc == effFile[last.name]

LastBase == MakeDefines(last.ins)

LastResolved ==
    /\ last.op = "LoadEffect"
    /\ last.dEffLoads = 1
    /\ LastDoc # Missing

Candidates == 1..Len(LastDoc.children)

Candidate(i) == LastDoc.children[i]

FirstOrNone(S) == IF S = {} THEN 0 ELSE SetMin(S)

UsableSet == {i \in Candidates : IsUsable(Candidate(i), LastBase)}

PassPositions(T) == SeqOfSet({k \in 1..Len(T.children) : T.children[k].tag = "pass"})

ShadersOf(T) ==
    [i \in 1..Len(PassPositions(T)) |->
        GetNamedItem(T.children[PassPositions(T)[i]], "shader")]

TraceNames == [i \in 1..Len(last.trace) |-> last.trace[i].name]

TraceDefines == [i \in 1..Len(last.trace) |-> last.trace[i].defines]

BuiltFrom(i) ==
    /\ last.res # NULL
    /\ last.res \in 1..Len(techniques)
    /\ m_EffectCache[KeyOf(last.name, last.ins)] = last.res
    /\ last.chosen = i
    /\ TraceNames = ShadersOf(Candidate(i))
    /\ Len(techniques[last.res].passes) = Len(PassPositions(Candidate(i)))
    /\ \A q \in 1..Len(last.trace) :
           techniques[last.res].passes[q].shader = last.trace[q].res

\* C5: the technique is built from the first candidate in document order
\* that is usable; when no candidate is usable NewEffect fails, and
\* LoadEffect returns the null handle and caches it, with no technique made.
C5_FirstUsableWins ==
    LastResolved =>
        IF UsableSet = {}
        THEN /\ last.res = NULL
             /\ m_EffectCache[KeyOf(last.name, last.ins)] = NULL
             /\ last.dTechs = 0
             /\ last.trace = <<>>
             /\ <<"Failed to load effect", last.name>> \in Range(logs)
        ELSE BuiltFrom(SetMin(UsableSet))

\* The first candidate is not usable and two later ones are.
C5_Witness ==
    /\ LastResolved
    /\ Cardinality(UsableSet) >= 2
    /\ SetMin(UsableSet) >= 2
    /\ last.res # NULL

C5_WitnessNoneUsable ==
    /\ LastResolved
    /\ UsableSet = {}
    /\ last.res = NULL

AllRequires ==
    UNION {{<<i, j>> : j \in RequireIndices(Candidate(i))} : i \in Candidates}

EvaluatedRequires == {<<e.tech, e.child>> : e \in last.evals}

\* C6 as stated: no predicate of a candidate after the chosen one is
\* evaluated.
C6_NothingEvaluatedAfterChosen ==
    (LastResolved /\ last.chosen > 0) =>
        \A e \in last.evals : e.tech <= last.chosen

\* C6, amended: the first usable candidate is selected and the technique is
\* built from it alone, whatever candidates follow it; the predicates of
\* every candidate of the document, those after the chosen one included,
\* are evaluated.
C6_FirstUsableWinsAllEvaluated ==
    LastResolved =>
        /\ EvaluatedRequires = AllRequires
        /\ UsableSet # {} => BuiltFrom(SetMin(UsableSet))

\* The first candidate fails, the second passes, the third would pass too and
\* carries a predicate.
C6_Witness ==
    /\ LastResolved
    /\ Len(LastDoc.children) >= 3
    /\ 1 \notin UsableSet
    /\ 2 \in UsableSet
    /\ 3 \in UsableSet
    /\ RequireIndices(Candidate(3)) # {}
    /\ last.chosen = 2

FlavorHolds(shaders) ==
    /\ shaders = "arb" => (backend = "GL_ARB" /\ caps.ARBShaders)
    /\ shaders = "glsl" => backend = "GL"

ContextHolds(context) == context = "" \/ TestConditional(LastBase, context)

Carried(Child) ==
    (IF GetNamedItem(Child, "shaders") \in {"arb", "glsl"} THEN {"shaders"} ELSE {})
    \cup (IF GetNamedItem(Child, "context") # "" THEN {"context"} ELSE {})

AllCarriedHold(T) ==
    \A j \in RequireIndices(T) :
        /\ FlavorHolds(GetNamedItem(T.children[j], "shaders"))
        /\ ContextHolds(GetNamedItem(T.children[j], "context"))

\* C7 as stated: every predicate a require child carries, flavor and
\* context alike, is evaluated, and the candidate is usable iff all hold.
C7_EveryCarriedPredicateCounts ==
    LastResolved =>
        /\ last.chosen = FirstOrNone({i \in Candidates : AllCarriedHold(Candidate(i))})
        /\ \A e \in last.evals :
               e.eval.tested = Carried(Candidate(e.tech).children[e.child])

RequireHolds(Child) ==
    IF GetNamedItem(Child, "shaders") \in {"arb", "glsl"}
    THEN FlavorHolds(GetNamedItem(Child, "shaders"))
    ELSE ContextHolds(GetNamedItem(Child, "context"))

Tested(Child) ==
    IF GetNamedItem(Child, "shaders") \in {"arb", "glsl"} THEN {"shaders"}
    ELSE IF GetNamedItem(Child, "context") # "" THEN {"context"}
    ELSE {}

\* C7, amended: a require child carries one predicate, its flavor
\* requirement when shaders is arb or glsl and otherwise its context
\* expression when it has one (a context expression beside a flavor is not
\* evaluated); a candidate is usable iff the predicate of every require
\* child holds, so one failing predicate makes it unusable and a candidate
\* with no predicates is usable.
C7_OnePredicatePerRequire ==
    LastResolved =>
        /\ last.chosen =
               FirstOrNone({i \in Candidates :
                               \A j \in RequireIndices(Candidate(i)) :
                                   RequireHolds(Candidate(i).children[j])})
        /\ \A e \in last.evals :
               e.eval.tested = Tested(Candidate(e.tech).children[e.child])

\* A candidate before the chosen one has two require children, one holding
\* and one failing.
C7_Witness ==
    /\ LastResolved
    /\ last.chosen > 1
    /\ \E i \in 1..(last.chosen - 1) :
           /\ Cardinality(RequireIndices(Candidate(i))) >= 2
           /\ \E j \in RequireIndices(Candidate(i)) : RequireHolds(Candidate(i).children[j])
           /\ \E j \in RequireIndices(Candidate(i)) : ~RequireHolds(Candidate(i).children[j])
    /\ RequireIndices(Candidate(last.chosen)) = {}

FlavorBackend(kind) == IF kind = "arb" THEN "GL_ARB" ELSE "GL"

\* C8 as stated: a flavor requirement, arb or glsl, holds only when the
\* flavor is the active backend and the device capabilities were asked and
\* report support.
C8_FlavorNeedsBackendAndCapability ==
    \A e \in last.evals :
        (e.eval.kind \in {"arb", "glsl"} /\ e.eval.holds) =>
            /\ backend = FlavorBackend(e.eval.kind)
            /\ e.eval.capsRead
            /\ e.eval.kind = "arb" => caps.ARBShaders

FlavorOnly(T) ==
    /\ RequireIndices(T) # {}
    /\ \A j \in RequireIndices(T) : GetNamedItem(T.children[j], "shaders") \in {"arb", "glsl"}

\* C8, amended: an arb requirement holds exactly when GL_ARB is the active
\* backend and the device capabilities report ARB shaders; a glsl
\* requirement holds exactly when GL is the active backend, and the device
\* capabilities are not consulted for it.
C8_ArbNeedsCapabilityGlslBackendOnly ==
    /\ \A e \in last.evals :
           /\ e.eval.kind = "arb" =>
                  /\ e.eval.holds <=> (backend = "GL_ARB" /\ caps.ARBShaders)
                  /\ e.eval.capsRead <=> backend = "GL_ARB"
           /\ e.eval.kind = "glsl" =>
                  /\ e.eval.holds <=> backend = "GL"
                  /\ ~e.eval.capsRead
    /\ LastResolved =>
           \A i \in Candidates :
               FlavorOnly(Candidate(i)) =>
                   /\ last.chosen = i =>
                          \A j \in RequireIndices(Candidate(i)) :
                              FlavorHolds(GetNamedItem(Candidate(i).children[j], "shaders"))
                   /\ (last.chosen > i \/ last.chosen = 0) =>
                          \E j \in RequireIndices(Candidate(i)) :
                              ~FlavorHolds(GetNamedItem(Candidate(i).children[j], "shaders"))

\* An arb requirement held and chose its candidate after a glsl one failed.
C8_Witness ==
    /\ LastResolved
    /\ last.chosen > 1
    /\ FlavorOnly(Candidate(last.chosen))
    /\ \E e \in last.evals : e.eval.kind = "arb" /\ e.eval.holds /\ e.tech = last.chosen
    /\ \E e \in last.evals : e.eval.kind = "glsl" /\ ~e.eval.holds /\ e.tech < last.chosen

(***************************************************************************)
(* Properties of define layering.                                          *)
(***************************************************************************)
Chosen == Candidate(last.chosen)

Bijections(n) == {f \in [1..n -> 1..n] : \A a, b \in 1..n : f[a] = f[b] => a = b}

\* The orders of the children of T that keep the defines in their order and
\* the passes in theirs.
Reorderings(T) ==
    {[T EXCEPT !.children = [i \in 1..Len(T.children) |-> T.children[f[i]]]] :
        f \in {g \in Bijections(Len(T.children)) :
                  \A a, b \in 1..Len(T.children) :
                      (/\ a < b
                       /\ T.children[g[a]].tag = T.children[g[b]].tag
                       /\ T.children[g[a]].tag \in {"define", "pass"}) => g[a] < g[b]}}

\* The define set each pass of T is resolved with.
ResolvedPassDefines(T, baseDefines) ==
    [i \in 1..Len(PassPositions(T)) |->
        PassDefines(TechDefinesForPass(T, baseDefines, PassPositions(T)[i]),
                    T.children[PassPositions(T)[i]])]

TechMap(T) == FinalMap(DefinesOf(T.children))

\* C9: every pass is resolved with all the technique-level defines, the
\* later of two defines of a name winning, wherever the define tags stand
\* among the pass tags: any reordering of the define and pass tags that
\* keeps the defines in order and the passes in order resolves every pass
\* with the same define set.
C9_DefinePassOrderIndependence ==
    (LastResolved /\ last.chosen > 0) =>
        /\ \A T2 \in Reorderings(Chosen) : ResolvedPassDefines(T2, LastBase) = TraceDefines
        /\ \A i \in 1..Len(last.trace) : \A n \in DOMAIN TechMap(Chosen) :
               n \notin DOMAIN FinalMap(DefinesOf(Chosen.children[PassPositions(Chosen)[i]].children))
                   => GetValue(last.trace[i].defines, n) = TechMap(Chosen)[n]

\* A define tag stands after a pass tag and its value reached that pass.
C9_Witness ==
    /\ LastResolved
    /\ last.chosen > 0
    /\ Len(last.trace) >= 1
    /\ \E d \in 1..Len(Chosen.children) :
           /\ Chosen.children[d].tag = "define"
           /\ d > PassPositions(Chosen)[1]
           /\ GetValue(last.trace[1].defines, GetNamedItem(Chosen.children[d], "name"))
                  = GetNamedItem(Chosen.children[d], "value")
           /\ GetValue(LastBase, GetNamedItem(Chosen.children[d], "name"))
                  # GetNamedItem(Chosen.children[d], "value")
           /\ \E d0 \in 1..(PassPositions(Chosen)[1] - 1) :
                  /\ Chosen.children[d0].tag = "define"
                  /\ GetNamedItem(Chosen.children[d0], "name")
                         = GetNamedItem(Chosen.children[d], "name")
                  /\ GetNamedItem(Chosen.children[d0], "value")
                         # GetNamedItem(Chosen.children[d], "value")

PassMap(T, i) == FinalMap(DefinesOf(T.children[PassPositions(T)[i]].children))

BaseMap == FinalMap(last.ins)

Layered(T, i, n) ==
    IF n \in DOMAIN PassMap(T, i) THEN PassMap(T, i)[n]
    ELSE IF n \in DOMAIN TechMap(T) THEN TechMap(T)[n]
    ELSE IF n \in DOMAIN BaseMap THEN BaseMap[n]
    ELSE ""

\* C10: the define set a pass is resolved with holds, for each name, the
\* value of the pass's own last define of it wherever that stands among the
\* pass's children, else the technique-level value, else the caller's; the
\* defines of one pass do not reach the define set of any other pass.
C10_PassScopedLayering ==
    (LastResolved /\ last.chosen > 0) =>
        /\ Len(last.trace) = Len(PassPositions(Chosen))
        /\ \A i \in 1..Len(last.trace) :
               /\ DefinedNames(last.trace[i].defines)
                      = DOMAIN PassMap(Chosen, i) \cup DOMAIN TechMap(Chosen) \cup DOMAIN BaseMap
               /\ \A n \in Range(DefNameOrder) :
                      GetValue(last.trace[i].defines, n) = Layered(Chosen, i, n)

\* Two passes of one technique: one overrides a technique-level define, with
\* its define tag after a state tag, and its sibling keeps the technique's
\* value.
C10_Witness ==
    /\ LastResolved
    /\ last.chosen > 0
    /\ \E i, j \in 1..Len(last.trace) : \E n \in DOMAIN TechMap(Chosen) :
           /\ i # j
           /\ n \in DOMAIN PassMap(Chosen, i)
           /\ n \notin DOMAIN PassMap(Chosen, j)
           /\ Chosen.children[PassPositions(Chosen)[i]].children[1].tag # "define"
           /\ GetValue(last.trace[i].defines, n) = PassMap(Chosen, i)[n]
           /\ GetValue(last.trace[j].defines, n) = TechMap(Chosen)[n]
           /\ PassMap(Chosen, i)[n] # TechMap(Chosen)[n]

(***************************************************************************)
(* Properties of the pipeline state of a pass.                             *)
(***************************************************************************)
Default == MakeDefaultGraphicsPipelineStateDesc

\* The q-th pass tag of the chosen candidate and the descriptor built for it.
PassTag(q) == Chosen.children[PassPositions(Chosen)[q]]

PassDesc(q) == techniques[last.res].passes[q].desc

Built ==
    /\ LastResolved
    /\ last.chosen > 0
    /\ last.res # NULL

\* The pass has a tag of that name carrying that attribute.
Carries(P, tag, at) == \E i \in 1..Len(P.children) : P.children[i].tag = tag /\ Has(P.children[i], at)

HasTag(P, tag) == \E i \in 1..Len(P.children) : P.children[i].tag = tag

\* The fields of a descriptor, each with the tag and the attribute that set
\* it ("" when the tag alone sets it).
StateFields ==
    {<<"blend", "", "enabled">>, <<"blend", "", "srcColorBlendFactor">>,
     <<"blend", "", "srcAlphaBlendFactor">>, <<"blend", "", "dstColorBlendFactor">>,
     <<"blend", "", "dstAlphaBlendFactor">>, <<"blend", "op", "colorBlendOp">>,
     <<"blend", "op", "alphaBlendOp">>, <<"blend", "constant", "constant">>,
     <<"color", "", "colorWriteMask">>,
     <<"cull", "mode", "cullMode">>, <<"cull", "front_face", "frontFace">>,
     <<"polygon", "mode", "polygonMode">>,
     <<"depth", "test", "depthTestEnabled">>, <<"depth", "func", "depthCompareOp">>,
     <<"depth", "mask", "depthWriteEnabled">>,
     <<"stencil", "test", "stencilTestEnabled">>, <<"stencil", "reference", "stencilReference">>,
     <<"stencil", "mask_read", "stencilReadMask">>, <<"stencil", "mask", "stencilWriteMask">>,
     <<"stencil", "compare", "compareOp">>, <<"stencil", "fail", "failOp">>,
     <<"stencil", "pass", "passOp">>, <<"stencil", "depth_fail", "depthFailOp">>}

FieldOf(d, f) ==
    IF f[1] \in {"blend", "color"} THEN <<d.blendState[f[3]]>>
    ELSE IF f[1] \in {"cull", "polygon"} THEN <<d.rasterizationState[f[3]]>>
    ELSE IF f[3] \in DOMAIN StencilOpStateDefault
    THEN <<d.depthStencilState.stencilFrontFace[f[3]], d.depthStencilState.stencilBackFace[f[3]]>>
    ELSE <<d.depthStencilState[f[3]]>>

Governed(P, f) == IF f[2] = "" THEN HasTag(P, f[1]) ELSE Carries(P, f[1], f[2])

OnlyDepthTest(P) ==
    /\ Len(P.children) = 1
    /\ P.children[1].tag = "depth"
    /\ DOMAIN P.children[1].attrs = {"test"}

\* C11: the descriptor of every pass holds the engine default in each field
\* that no tag or attribute of that pass sets; a pass with only a depth
\* test-enable override has the default cull mode, blend state, color write
\* mask and stencil state, and the state tags of one pass leave the
\* descriptor of its sibling pass alone.
C11_SparseOverride ==
    Built =>
        \A q \in 1..Len(techniques[last.res].passes) :
            /\ \A f \in StateFields :
                   ~Governed(PassTag(q), f) => FieldOf(PassDesc(q), f) = FieldOf(Default, f)
            /\ OnlyDepthTest(PassTag(q)) =>
                   /\ PassDesc(q).blendState = Default.blendState
                   /\ PassDesc(q).rasterizationState = Default.rasterizationState
                   /\ [PassDesc(q).depthStencilState EXCEPT !.depthTestEnabled = TRUE]
                          = Default.depthStencilState
            /\ PassTag(q).children = <<>> => PassDesc(q) = Default

\* A pass with only a depth test override that took effect, beside a sibling
\* pass that sets cull, blend or stencil state.
C11_Witness ==
    /\ Built
    /\ Len(techniques[last.res].passes) = 2
    /\ \E q, r \in 1..2 :
           /\ q # r
           /\ OnlyDepthTest(PassTag(q))
           /\ ~PassDesc(q).depthStencilState.depthTestEnabled
           /\ PassDesc(r).rasterizationState.cullMode # Default.rasterizationState.cullMode
           /\ PassDesc(r).blendState.colorWriteMask # Default.blendState.colorWriteMask
           /\ PassDesc(q).rasterizationState = Default.rasterizationState
           /\ PassDesc(q).blendState = Default.blendState

Channels == {"RED", "GREEN", "BLUE", "ALPHA"}

ChannelAttr(c) ==
    CASE c = "RED" -> "mask_red"
      [] c = "GREEN" -> "mask_green"
      [] c = "BLUE" -> "mask_blue"
      [] c = "ALPHA" -> "mask_alpha"

LastTagged(P, tag) == P.children[SetMax({i \in 1..Len(P.children) : P.children[i].tag = tag})]

\* C20: a pass with a color tag has as color write mask exactly the channels
\* whose attribute in the tag reads TRUE; a channel whose attribute is absent
\* or reads otherwise is cleared, whatever the default mask holds.
C20_ColorTagSetsMaskExactly ==
    Built =>
        \A q \in 1..Len(techniques[last.res].passes) :
            HasTag(PassTag(q), "color") =>
                PassDesc(q).blendState.colorWriteMask =
                    {c \in Channels :
                        GetNamedItem(LastTagged(PassTag(q), "color"), ChannelAttr(c)) = "TRUE"}

\* A color tag enabling red, disabling alpha and silent on green and blue
\* left red alone in a mask whose default holds all four channels.
C20_Witness ==
    /\ Built
    /\ Default.blendState.colorWriteMask = Channels
    /\ \E q \in 1..Len(techniques[last.res].passes) :
           /\ HasTag(PassTag(q), "color")
           /\ DOMAIN LastTagged(PassTag(q), "color").attrs = {"mask_red", "mask_alpha"}
           /\ PassDesc(q).blendState.colorWriteMask = {"RED"}

(***************************************************************************)
(* Properties of hotloading, stated of the latest file-change notification.*)
(***************************************************************************)
Notified == last.op = "ReloadChangedFile"

\* AddProgramFileDependency was called for p with that path, once or more.
RegisteredUnder(p, path) == path \in DOMAIN programs[p].regs

\* C12: a notification for a path reloads, exactly once each, the live
\* programs registered under that path, however many times each was
\* registered, and no other program; for a path nothing is registered under
\* it reloads nothing; it returns success.
C12_ReloadScope ==
    Notified =>
        /\ last.status = "INFO::OK"
        /\ \A p \in 1..Len(programs) :
               last.dReloadsOf[p] =
                   IF programs[p].alive /\ RegisteredUnder(p, last.name) THEN 1 ELSE 0
        /\ (\A p \in 1..Len(programs) : ~RegisteredUnder(p, last.name)) => last.dReloads = 0

\* Two programs registered under the notified path, one of them twice, were
\* each reloaded once.
C12_Witness ==
    /\ Notified
    /\ \E p, r \in 1..Len(programs) :
           /\ p # r
           /\ RegisteredUnder(p, last.name) /\ programs[p].regs[last.name] >= 2
           /\ RegisteredUnder(r, last.name)
           /\ last.dReloadsOf[p] = 1
           /\ last.dReloadsOf[r] = 1

C12_WitnessUnregistered ==
    /\ Notified
    /\ last.name \notin DOMAIN m_HotloadFiles
    /\ programs # <<>>
    /\ last.dReloads = 0

Dependents(path) == IF path \in DOMAIN m_HotloadFiles THEN m_HotloadFiles[path] ELSE {}

\* C13: a notification for a path whose dependent set refers to destroyed
\* programs reloads nothing for those and raises no error, reloads the
\* dependents that are alive, and returns success.
C13_StaleDependentsSkipped ==
    Notified =>
        /\ last.status = "INFO::OK"
        /\ last.dLogs = 0
        /\ \A ref \in Dependents(last.name) :
               /\ ~programs[ref.ptr].alive => last.dReloadsOf[ref.ptr] = 0
               /\ programs[ref.ptr].alive => last.dReloadsOf[ref.ptr] = 1
        /\ last.dReloads = Cardinality({ref.ptr : ref \in {x \in Dependents(last.name) :
                                                          programs[x.ptr].alive}})

\* The notified path has a destroyed dependent and a live one.
C13_Witness ==
    /\ Notified
    /\ \E dead, live \in Dependents(last.name) :
           /\ ~programs[dead.ptr].alive
           /\ programs[live.ptr].alive
           /\ last.dReloadsOf[dead.ptr] = 0
           /\ last.dReloadsOf[live.ptr] = 1

\* C14: a notification adds, removes and rebinds no entry of the program
\* cache or of the effect cache; the programs it reloads stay the same
\* objects, so each key still maps to the handle first returned for it.
C14_NotificationKeepsCaches ==
    Notified =>
        /\ last.cacheKept
        /\ last.ecacheKept
        /\ last.inPlace
        /\ \A k \in DOMAIN pstats : k \in DOMAIN m_ProgramCache /\ m_ProgramCache[k] = pstats[k].first
        /\ \A k \in DOMAIN estats : k \in DOMAIN m_EffectCache /\ m_EffectCache[k] = estats[k].first

\* A notification reloaded a cached program while both caches held entries.
C14_Witness ==
    /\ Notified
    /\ last.dReloads >= 1
    /\ \E k \in DOMAIN m_ProgramCache : m_ProgramCache[k] # NULL /\ last.dReloadsOf[m_ProgramCache[k]] = 1
    /\ \E k \in DOMAIN m_EffectCache : m_EffectCache[k] # NULL

StrongOwners(p) ==
    {k \in DOMAIN m_ProgramCache : m_ProgramCache[k] = p}
    \cup {<<t, q>> \in (1..Len(techniques)) \X (1..MaxChildren + 1) :
             q <= Len(techniques[t].passes) /\ techniques[t].passes[q].shader = p}
    \cup (IF programs[p].external THEN {"external"} ELSE {})

\* C15: a program is alive exactly while it has a strong owner, a program
\* cache entry, a technique pass or an owner outside the manager; the
\* tracker entries that refer to it do not keep it alive, and no tracker
\* entry owns a program once a notification has returned.
C15_TrackerNeverExtendsLifetime ==
    /\ \A p \in 1..Len(programs) : programs[p].alive <=> StrongOwners(p) # {}
    /\ \A path \in DOMAIN m_HotloadFiles : \A ref \in m_HotloadFiles[path] : ~ref.owning

\* A program whose last owner let go is destroyed while the tracker still
\* refers to it under two paths.
C15_Witness ==
    \E p \in 1..Len(programs) :
        /\ ~programs[p].alive
        /\ StrongOwners(p) = {}
        /\ Cardinality({path \in DOMAIN m_HotloadFiles : WeakPtr(p) \in m_HotloadFiles[path]}) >= 2

(***************************************************************************)
(* Properties of program construction, stated of the latest LoadProgram    *)
(* call when it was a cache miss on a document that loaded and validated.  *)
(***************************************************************************)
LastProgramDoc == progFile[last.name]

LastConstructed ==
    /\ last.op = "LoadProgram"
    /\ last.dProgLoads = 1
    /\ LastProgramDoc # Missing
    /\ LastProgramDoc.tag = "program"

\* The declarations with that tag in the stages with that tag, in document
\* order, that the condition test lets through when it is made against defs.
Declared(doc, stageTag, tag, defs) ==
    LET stages == SelectSeq(doc.children, LAMBDA e : e.tag = stageTag)
        all == Concat([i \in 1..Len(stages) |-> stages[i].children])
    IN SelectSeq(all, LAMBDA e : /\ e.tag = tag
                                 /\ \/ GetNamedItem(e, "if") = ""
                                    \/ /\ GetNamedItem(e, "if") \in DOMAIN FinalMap(defs)
                                       /\ FinalMap(defs)[GetNamedItem(e, "if")] \notin {"", "0"})

UnknownAttribs ==
    SelectSeq(Declared(LastProgramDoc, "vertex", "attrib", last.ins),
              LAMBDA e : GetNamedItem(e, "semantics") \notin DOMAIN KnownSemantics)

MergedInserts == last.ins \o DefinesOf(LastProgramDoc.children)

NamesOf(decls) == {GetNamedItem(decls[i], "name") : i \in 1..Len(decls)}

\* The program holds exactly the declarations that pass their condition when
\* it is tested against defs.
DeclaresUnder(prog, defs) ==
    /\ prog.streamFlags = NamesOf(Declared(LastProgramDoc, "vertex", "stream", defs)) \cap StreamNames
    /\ prog.type = "glsl" =>
           DOMAIN prog.vertexAttribs = NamesOf(Declared(LastProgramDoc, "vertex", "attrib", defs))
    /\ prog.type = "arb" =>
           /\ DOMAIN prog.vertexUniforms = NamesOf(Declared(LastProgramDoc, "vertex", "uniform", defs))
           /\ DOMAIN prog.fragmentUniforms = NamesOf(Declared(LastProgramDoc, "fragment", "uniform", defs))

\* C17 as stated: the condition of each uniform, stream and attribute
\* declaration is tested against the caller's defines merged with the
\* document's own.
C17_ConditionalsSeeMergedDefines ==
    (LastConstructed /\ last.res # NULL) =>
        /\ programs[last.res].defines = MakeDefines(MergedInserts)
        /\ DeclaresUnder(programs[last.res], MergedInserts)

\* C17, amended: the document's defines are merged into the caller's defines
\* for the set the program is constructed with, but the condition of each
\* uniform, stream and attribute declaration is tested against the caller's
\* defines alone; a declaration whose condition fails is skipped entirely.
C17_ConditionalsSeeCallerDefines ==
    (LastConstructed /\ last.res # NULL) =>
        /\ programs[last.res].defines = MakeDefines(MergedInserts)
        /\ DeclaresUnder(programs[last.res], last.ins)

\* The document defines A, the caller does not, and a declaration under
\* "if A" was skipped.
C17_Witness ==
    /\ LastConstructed
    /\ last.res # NULL
    /\ last.ins = <<>>
    /\ "A" \in DOMAIN FinalMap(MergedInserts)
    /\ FinalMap(MergedInserts)["A"] = "1"
    /\ programs[last.res].type = "glsl"
    /\ \E i \in 1..Len(LastProgramDoc.children) :
           /\ LastProgramDoc.children[i].tag = "vertex"
           /\ \E j \in 1..Len(LastProgramDoc.children[i].children) :
                  /\ LastProgramDoc.children[i].children[j].tag = "attrib"
                  /\ GetNamedItem(LastProgramDoc.children[i].children[j], "if") = "A"
                  /\ GetNamedItem(LastProgramDoc.children[i].children[j], "name")
                         \notin DOMAIN programs[last.res].vertexAttribs

(***************************************************************************)
(* Properties of the passes of a resolved technique.                       *)
(***************************************************************************)
TraceKeys == {[name |-> last.trace[i].name, defines |-> last.trace[i].defines] :
                 i \in 1..Len(last.trace)}

\* C18: two passes of the chosen technique that name the same program are
\* resolved through one program cache entry, and one program, when their
\* layered define sets are equal, and through two entries holding two
\* programs when those differ; a program is constructed once per new key.
C18_KeySeparation ==
    (LastResolved /\ last.chosen > 0) =>
        /\ \A i, j \in 1..Len(last.trace) :
               last.trace[i].name = last.trace[j].name =>
                   (last.trace[i].defines = last.trace[j].defines
                        <=> last.trace[i].res = last.trace[j].res)
        /\ \A i \in 1..Len(last.trace) :
               /\ [name |-> last.trace[i].name, defines |-> last.trace[i].defines]
                      \in DOMAIN m_ProgramCache
               /\ m_ProgramCache[[name |-> last.trace[i].name,
                                  defines |-> last.trace[i].defines]] = last.trace[i].res
               /\ last.trace[i].res # NULL
               /\ programs[last.trace[i].res].name = last.trace[i].name
        /\ last.dProgLoads = last.dCache
        /\ last.dCache <= Cardinality(TraceKeys)
        /\ ncalls = 1 => last.dProgLoads = Cardinality(TraceKeys)

\* Three passes name the same program: two with equal layered defines share
\* a program, the third with other defines has its own.
C18_Witness ==
    /\ LastResolved
    /\ last.chosen > 0
    /\ \E i, j, k \in 1..Len(last.trace) :
           /\ i # j /\ j # k /\ i # k
           /\ last.trace[i].name = last.trace[j].name
           /\ last.trace[i].name = last.trace[k].name
           /\ last.trace[i].defines = last.trace[j].defines
           /\ last.trace[i].res = last.trace[j].res
           /\ last.trace[i].defines # last.trace[k].defines
           /\ last.trace[i].res # last.trace[k].res
    /\ last.dProgLoads = 2

HasMarker(T) == \E i \in 1..Len(T.children) : T.children[i].tag = "sort_by_distance"

\* C19: on success the technique holds one pass per pass tag of the chosen
\* candidate, in document order, each with the program its tag names; its
\* sort-by-distance flag is set iff the chosen candidate has the marker; the
\* pass tags and markers of the other candidates add nothing; the technique
\* is stored in the effect cache under the requested key.
C19_TechniqueAssembly ==
    (LastResolved /\ last.res # NULL) =>
        /\ last.chosen \in Candidates
        /\ Len(techniques[last.res].passes) = Len(PassPositions(Chosen))
        /\ \A q \in 1..Len(techniques[last.res].passes) :
               /\ techniques[last.res].passes[q].shader # NULL
               /\ programs[techniques[last.res].passes[q].shader].name
                      = GetNamedItem(PassTag(q), "shader")
               /\ techniques[last.res].passes[q].shader = last.trace[q].res
        /\ techniques[last.res].sortByDistance <=> HasMarker(Chosen)
        /\ KeyOf(last.name, last.ins) \in DOMAIN m_EffectCache
        /\ m_EffectCache[KeyOf(last.name, last.ins)] = last.res

\* The chosen candidate has two passes and the marker; another candidate of
\* the document has no marker and another number of passes.
C19_Witness ==
    /\ LastResolved
    /\ last.res # NULL
    /\ HasMarker(Chosen)
    /\ techniques[last.res].sortByDistance
    /\ Len(techniques[last.res].passes) = 2
    /\ \E i \in Candidates :
           /\ i # last.chosen
           /\ ~HasMarker(Candidate(i))
           /\ Len(PassPositions(Candidate(i))) = 1

C19_WitnessMarkerElsewhere ==
    /\ LastResolved
    /\ last.res # NULL
    /\ ~HasMarker(Chosen)
    /\ ~techniques[last.res].sortByDistance
    /\ \E i \in Candidates : i # last.chosen /\ HasMarker(Candidate(i))

(***************************************************************************)
(* Properties of the stencil state of a pass.                              *)
(***************************************************************************)
\* The stencil attributes that set a per-face field, each with its field.
StencilFaceAttrs ==
    {<<"compare", "compareOp">>, <<"fail", "failOp">>,
     <<"pass", "passOp">>, <<"depth_fail", "depthFailOp">>}

ParseFaceValue(at, str) == IF at = "compare" THEN ParseCompareOp(str) ELSE ParseStencilOp(str)

\* The last tag of that name in the pass that carries the attribute.
LastCarrying(P, tag, at) ==
    P.children[SetMax({i \in 1..Len(P.children) :
                          P.children[i].tag = tag /\ Has(P.children[i], at)})]

Front(d) == d.depthStencilState.stencilFrontFace

Back(d) == d.depthStencilState.stencilBackFace

\* C21: for each of the compare, fail, pass and depth_fail attributes carried
\* by a stencil tag of a pass, the front-face and the back-face field both
\* hold the value parsed from the last tag carrying it; an attribute that no
\* stencil tag carries leaves both faces' field at the default; so with a
\* default whose faces are equal, every built descriptor has equal faces.
C21_StencilSymmetry ==
    Built =>
        \A q \in 1..Len(techniques[last.res].passes) :
            /\ \A a \in StencilFaceAttrs :
                   IF Carries(PassTag(q), "stencil", a[1])
                   THEN /\ Front(PassDesc(q))[a[2]] =
                              ParseFaceValue(a[1], GetNamedItem(LastCarrying(PassTag(q), "stencil", a[1]), a[1]))
                        /\ Back(PassDesc(q))[a[2]] = Front(PassDesc(q))[a[2]]
                   ELSE /\ Front(PassDesc(q))[a[2]] = Front(Default)[a[2]]
                        /\ Back(PassDesc(q))[a[2]] = Back(Default)[a[2]]
            /\ Front(Default) = Back(Default) => Front(PassDesc(q)) = Back(PassDesc(q))

\* A pass whose stencil tags set fail, pass and depth_fail but not compare:
\* both faces took the three parsed operations and kept the default compare.
C21_Witness ==
    /\ Built
    /\ \E q \in 1..Len(techniques[last.res].passes) :
           /\ Carries(PassTag(q), "stencil", "fail")
           /\ ~Carries(PassTag(q), "stencil", "compare")
           /\ Front(PassDesc(q)) = [compareOp |-> "ALWAYS", failOp |-> "ZERO",
                                    passOp |-> "REPLACE", depthFailOp |-> "INVERT"]
           /\ Back(PassDesc(q)) = Front(PassDesc(q))
           /\ Front(PassDesc(q)) # Front(Default)

\* A pass whose stencil tag sets compare alone.
C21_WitnessCompare ==
    /\ Built
    /\ \E q \in 1..Len(techniques[last.res].passes) :
           /\ Carries(PassTag(q), "stencil", "compare")
           /\ ~Carries(PassTag(q), "stencil", "fail")
           /\ Front(PassDesc(q)).compareOp = "EQUAL"
           /\ Back(PassDesc(q)).compareOp = "EQUAL"
           /\ Back(PassDesc(q)).failOp = "KEEP"

(***************************************************************************)
(* Properties of the layering of effects over programs.                    *)
(***************************************************************************)
\* The step leaves the manager with a failed LoadEffect as its latest call.
EffectFailed == last'.op = "LoadEffect" /\ last'.res = NULL

LowerLayersKept ==
    /\ m_ProgramCache' = m_ProgramCache
    /\ m_HotloadFiles' = m_HotloadFiles
    /\ programs' = programs
    /\ progLoads' = progLoads
    /\ techniques' = techniques

\* C22: a LoadEffect call that returns null made no LoadProgram call and
\* left the program cache, the program objects and the hotload dependency
\* map as they were; the effect cache is the only map that changed, by at
\* most the null entry under the requested key.
C22_FailedEffectKeepsLowerLayers ==
    [][EffectFailed =>
          /\ last'.trace = <<>>
          /\ last'.dProgLoads = 0
          /\ LowerLayersKept
          /\ \/ m_EffectCache' = m_EffectCache
             \/ /\ KeyOf(last'.name, last'.ins) \notin DOMAIN m_EffectCache
                /\ m_EffectCache' = Put(m_EffectCache, KeyOf(last'.name, last'.ins), NULL)]_vars

\* An effect whose document is missing failed on its first request, with
\* programs already cached and tracked.
C22_Witness ==
    /\ last.op = "LoadEffect"
    /\ last.res = NULL
    /\ last.dEffects = 1
    /\ last.dEffLoads = 1
    /\ last.dWarns = 0
    /\ effFile[last.name] = Missing
    /\ m_EffectCache[KeyOf(last.name, last.ins)] = NULL
    /\ m_ProgramCache # EmptyMap
    /\ m_HotloadFiles # EmptyMap

\* An effect with no usable candidate failed on its first request, with
\* programs already cached and tracked.
C22_WitnessNoneUsable ==
    /\ last.op = "LoadEffect"
    /\ last.res = NULL
    /\ last.dEffects = 1
    /\ last.dWarns = 1
    /\ effFile[last.name] # Missing
    /\ m_EffectCache[KeyOf(last.name, last.ins)] = NULL
    /\ m_ProgramCache # EmptyMap
    /\ m_HotloadFiles # EmptyMap

\* The program document a pass names cannot be turned into a program.
Unloadable(name) == DocumentState(progFile[name]) # "ok"

\* C23: once a candidate is chosen, LoadEffect returns and caches a non-null
\* technique with one pass per pass tag, each pass's LoadProgram call made
\* in order; a pass whose program cannot be loaded is in the list with the
\* null program, and the passes after it are resolved all the same.
C23_ProgramFailureKeepsEffect ==
    (LastResolved /\ last.chosen > 0) =>
        /\ BuiltFrom(last.chosen)
        /\ \A q \in 1..Len(techniques[last.res].passes) :
               techniques[last.res].passes[q].shader = NULL <=> Unloadable(TraceNames[q])
        /\ \A q \in 1..Len(techniques[last.res].passes) :
               techniques[last.res].passes[q].desc = PassPipelineStateDesc(PassTag(q))

\* A technique whose first pass has the null program and whose later pass
\* has a program.
C23_Witness ==
    /\ LastResolved
    /\ last.chosen > 0
    /\ last.res # NULL
    /\ m_EffectCache[KeyOf(last.name, last.ins)] = last.res
    /\ Len(techniques[last.res].passes) >= 2
    /\ techniques[last.res].passes[1].shader = NULL
    /\ \E q \in 2..Len(techniques[last.res].passes) :
           techniques[last.res].passes[q].shader # NULL
    /\ last.dLogs >= 1

\* A technique all of whose passes have the null program.
C23_WitnessAllNull ==
    /\ LastResolved
    /\ last.res # NULL
    /\ Len(techniques[last.res].passes) >= 2
    /\ \A q \in 1..Len(techniques[last.res].passes) :
           techniques[last.res].passes[q].shader = NULL

(***************************************************************************)
(* Properties of the effect count.                                         *)
(***************************************************************************)
\* The keys LoadEffect was asked for so far, by value.
RequestedEffectKeys == {KeyOf(a.name, a.ins) : a \in {b \in asked : b.op = "LoadEffect"}}

NumEffectsLoaded == GetNumEffectsLoaded(Mgr)

\* C24: GetNumEffectsLoaded is the number of distinct keys LoadEffect was
\* ever asked for, whether the resolution succeeded or failed, and no step
\* makes it smaller.
C24_EffectCountCountsFailures ==
    /\ [](/\ NumEffectsLoaded = Cardinality(RequestedEffectKeys)
          /\ DOMAIN m_EffectCache = RequestedEffectKeys)
    /\ [][Cardinality(DOMAIN m_EffectCache') >= Cardinality(DOMAIN m_EffectCache)]_vars

\* Two keys counted, one cached as a failure that was requested twice and
\* one cached as a technique.
C24_Witness ==
    /\ NumEffectsLoaded = 2
    /\ \E k1, k2 \in DOMAIN m_EffectCache :
           /\ m_EffectCache[k1] = NULL
           /\ estats[k1].calls = 2
           /\ m_EffectCache[k2] # NULL
           /\ estats[k2].calls = 1

(***************************************************************************)
(* Properties of the program cache key.                                    *)
(***************************************************************************)
\* The keys LoadProgram was asked for so far, by value.
RequestedProgramKeys == {KeyOf(a.name, a.ins) : a \in {b \in asked : b.op = "LoadProgram"}}

\* The define set a program requested under the key is constructed with.
MergedDefines(k) == AddAll(k.defines, DefinesOf(progFile[k.name].children))

\* C25: a program is constructed with the caller's defines plus the define
\* declarations of its document and cached under the name and the caller's
\* defines only; requests for one name with different caller defines
\* construct and cache different program objects, also when the merged
\* define sets are equal.
C25_KeyIsCallerDefines ==
    /\ DOMAIN m_ProgramCache = RequestedProgramKeys
    /\ Len(programs) = Cardinality(RequestedProgramKeys)
    /\ \A k \in DOMAIN m_ProgramCache :
           /\ m_ProgramCache[k] \in 1..Len(programs)
           /\ programs[m_ProgramCache[k]].defines = MergedDefines(k)
    /\ \A k1, k2 \in DOMAIN m_ProgramCache :
           k1 # k2 => m_ProgramCache[k1] # m_ProgramCache[k2]

\* One name requested with two different caller define sets whose merged
\* define sets are equal: two program objects with equal defines, and the
\* second request was not a cache hit.
C25_Witness ==
    /\ last.op = "LoadProgram"
    /\ last.dProgLoads = 1
    /\ \E k1, k2 \in DOMAIN m_ProgramCache :
           /\ k1.name = k2.name
           /\ k1.defines # k2.defines
           /\ k2 = KeyOf(last.name, last.ins)
           /\ MergedDefines(k1) = MergedDefines(k2)
           /\ m_ProgramCache[k1] # m_ProgramCache[k2]
           /\ programs[m_ProgramCache[k1]].defines = programs[m_ProgramCache[k2]].defines
           /\ programs[m_ProgramCache[k2]].defines # k2.defines

====
